---- MODULE Spec2Model ----
(***************************************************************************)
(* Montreal festival assistant: the aggregation pipeline of                *)
(* api_integrations.py (six source adapters, validity filter, truncation)  *)
(* and the facade of festival_service.py (static seed fallback).           *)
(*                                                                         *)
(* Time is counted in whole hours since 2024-01-01T00:00 local time.  A    *)
(* Python value is a record that carries its type tag, so that len(),      *)
(* .lower(), .replace() and datetime.fromisoformat() raise where Python    *)
(* raises.  Event fields the pipeline only copies (address, end_date, url, *)
(* category, price, metro) are not carried.                                *)
(*                                                                         *)
(* The criteria parser and the temporal matcher of main.py work on text:   *)
(* there a str is the sequence of its characters, so that lower(), split(),*)
(* substring tests and strptime are computed character by character.  The  *)
(* datetimes they produce carry the minutes past the hour.                 *)
(***************************************************************************)
EXTENDS Integers, Sequences, FiniteSets, TLC

VARIABLES
    now,            \* datetime.now(): naive local wall clock
    source,         \* per adapter: credential present, what the remote end answers
    pc,             \* "idle" | "returned": position of the caller of the facade
    apiRaised,      \* the last get_live_festivals_from_apis() call raised
    live,           \* what the last get_live_festivals() returned
    batch,          \* what each adapter returned during that call
    result,         \* what the last get_ongoing_festivals() returned
    festival,       \* argument of the _is_valid_festival call under test
    current_date,   \* its second argument
    verdict,        \* "pending" | "True" | "False": its return value
    step,           \* position of the caller of the criteria parser and matcher
    event_name,     \* argument of the _categorize_event call under test
    category,       \* its return value
    user_input,     \* argument of the _parse_user_input call under test
    criteria,       \* (category, day, time): what it returned, what the matcher is given
    target_datetime,\* what _parse_datetime returned
    candidate,      \* the festival given to _is_festival_at_time
    at_time,        \* its return value
    facade,         \* what get_ongoing_festivals() hands get_festivals_by_criteria
    matching,       \* what get_festivals_by_criteria returned
    selection,      \* what FestivalUI.get_user_selection returned
    generator,      \* what the text generator does on each call of execute_task
    memory,         \* memory_data['conversations'] of the Memory Store
    reply,          \* what process_user_input returned
    web,            \* what each scraped website answers
    tasks,          \* the task list the planner produced
    dependencies_valid  \* what validate_task_dependencies returned for it

vars ==
    <<now, source, pc, apiRaised, live, batch, result, festival, current_date, verdict,
      step, event_name, category, user_input, criteria, target_datetime, candidate,
      at_time, facade, matching, selection, generator, memory, reply, web, tasks,
      dependencies_valid>>

pipeVars == <<now, source, pc, apiRaised, live, batch, result>>
validVars == <<festival, current_date, verdict>>
criteriaVars ==
    <<step, event_name, category, user_input, criteria, target_datetime, candidate,
      at_time, facade, matching>>
assistantVars == <<selection, generator, memory, reply, web, tasks, dependencies_valid>>

\* no menu choice made, no conversation stored, nothing scraped or planned
AssistantIdle ==
    /\ selection = <<>>
    /\ generator = <<>>
    /\ memory = <<>>
    /\ reply = "pending"
    /\ web = <<>>
    /\ tasks = <<>>
    /\ dependencies_valid = "pending"

----------------------------------------------------------------------------
(* Bounds of the model *)

\* at most this many sources are configured (answer anything but "no key") at once
MaxConfigured == 3
\* number of records of the bulk payload
BulkSize == 40

----------------------------------------------------------------------------
(* Time *)

Days(n) == n * 24

\* hours before the first day of each month of 2024
MonthStart2024 == <<0, 31, 60, 91, 121, 152, 182, 213, 244, 274, 305, 335>>

\* '2024-MM-DDTHH:00:00' as hours since 2024-01-01T00:00
Date2024(month, day, hour) == Days(MonthStart2024[month] + day - 1) + hour

\* America/Montreal in summer, as hours east of UTC
MontrealUtcOffset == -4

\* datetime.fromtimestamp(0): the Unix epoch on the local clock
EpochLocal == Days(0 - 19723) + MontrealUtcOffset

\* the wall-clock times the facade is called at
T0 == Date2024(7, 20, 12)
TLater == Days(365 + 365) + Date2024(11, 6, 12)
NowSet == {T0, TLater}

----------------------------------------------------------------------------
(* Python values *)

Str(s) == [ty |-> "str", s |-> s, n |-> 0]
PyList(k) == [ty |-> "list", s |-> "", n |-> k]
PyInt(k) == [ty |-> "int", s |-> "", n |-> k]
None == [ty |-> "none", s |-> "", n |-> 0]
Missing == [ty |-> "missing", s |-> "", n |-> 0]

\* len(v) is defined for str and list and raises TypeError otherwise
HasLen(v) == v.ty \in {"str", "list"}
PyLen(v) == IF v.ty = "str" THEN Len(v.s) ELSE v.n

\* a date string: form "naive" is 'YYYY-MM-DDTHH:MM:SS', "zulu" the same with a
\* 'Z' suffix, "offset" the same with '+HH:00', t the wall clock it spells and
\* off its UTC offset; "garbage" is any other non-empty text, "empty" is ''
DateStr(form, t, off) == [ty |-> "str", form |-> form, t |-> t, off |-> off]
NoDate(ty) == [ty |-> ty, form |-> "", t |-> 0, off |-> 0]
Naive(t) == DateStr("naive", t, 0)
Zulu(t) == DateStr("zulu", t, 0)
Offset(t, off) == DateStr("offset", t, off)
Garbage == DateStr("garbage", 0, 0)
EmptyStr == DateStr("empty", 0, 0)

\* d.replace('Z', '+00:00'): only a str has it
CanReplace(d) == d.ty = "str"
ReplaceZ(d) == IF d.form = "zulu" THEN Offset(d.t, 0) ELSE d

\* datetime.fromisoformat(s): ValueError unless s is an ISO timestamp; the result
\* is tz-aware exactly when s carries an offset
IsoParses(d) == d.form \in {"naive", "offset", "zulu"}
fromisoformat(d) == [aware |-> d.form \in {"offset", "zulu"}, t |-> d.t, off |-> d.off]

\* datetime(...).isoformat() of a naive datetime
isoformat(t) == Naive(t)

\* the local wall clock of the instant a parsed datetime denotes
LocalClock(dt) == IF dt.aware THEN dt.t - dt.off + MontrealUtcOffset ELSE dt.t

----------------------------------------------------------------------------
(* APIIntegrations._is_valid_festival *)

required_fields == <<"name", "venue", "start_date">>

HasKey(f, field) == f[field].ty # "missing"

\* faulty variant: the length check on the name is left out
_is_valid_festival_no_name_check(f, cur) ==
    IF ~ \A i \in 1..Len(required_fields) : HasKey(f, required_fields[i]) THEN FALSE
    ELSE IF ~ CanReplace(f.start_date) THEN FALSE
    ELSE IF ~ IsoParses(ReplaceZ(f.start_date)) THEN FALSE
    ELSE LET start_date == fromisoformat(ReplaceZ(f.start_date)) IN
         IF start_date.aware THEN FALSE
         ELSE (cur - Days(30)) <= start_date.t /\ start_date.t <= (cur + Days(90))

_is_valid_festival(f, cur) ==
    \* required fields: the keys must be present, their values are not looked at
    IF ~ \A i \in 1..Len(required_fields) : HasKey(f, required_fields[i]) THEN FALSE
    \* len(festival['name']) raises TypeError: the outer except returns False
    ELSE IF ~ HasLen(f.name) THEN FALSE
    ELSE IF PyLen(f.name) < 3 THEN FALSE
    \* .replace on a non-str raises AttributeError: the bare except returns False
    ELSE IF ~ CanReplace(f.start_date) THEN FALSE
    \* fromisoformat raises ValueError: the bare except returns False
    ELSE IF ~ IsoParses(ReplaceZ(f.start_date)) THEN FALSE
    ELSE LET start_date == fromisoformat(ReplaceZ(f.start_date)) IN
         \* current_date is naive: comparing it with an aware datetime raises
         \* TypeError, which the bare except turns into False
         IF start_date.aware THEN FALSE
         ELSE (cur - Days(30)) <= start_date.t /\ start_date.t <= (cur + Days(90))

----------------------------------------------------------------------------
(* Source adapters *)

\* the order get_live_festivals calls the adapters in, by source tag
Adapters ==
    <<"Ticketmaster", "Eventbrite", "Meetup", "Facebook", "Google Places",
      "Quebec Open Data">>

AdapterIds == 1..Len(Adapters)

\* _get_quebec_open_data reads no credential
NeedsKey(a) == Adapters[a] # "Quebec Open Data"

Event(name, venue, start_date, src) ==
    [name |-> name, venue |-> venue, start_date |-> start_date, source |-> src]

\* one record of a payload; shape "broken" is a record any adapter's field
\* extraction raises on (not a dict, venues: [], a non-text address)
Raw(shape, name, venue, when) ==
    [shape |-> shape, name |-> name, venue |-> venue, when |-> when]

\* dict.get(key, default)
GetOr(v, default) == IF v.ty = "missing" THEN default ELSE v

\* _categorize_event(name) starts with name.lower(): AttributeError on a non-str
LowerRaises(v) == v.ty # "str"

\* str(v) inside an f-string
FormatStr(v) ==
    CASE v.ty = "str" -> v.s
      [] v.ty = "none" -> "None"
      [] v.ty = "list" -> "[...]"
      [] OTHER -> "0"

\* Meetup's time field is epoch milliseconds: time / 1000 raises on a non-number
MeetupTimeRaises(when) == when.ty \notin {"int", "missing"}
MeetupStart(when) ==
    IF when.ty = "missing" THEN isoformat(EpochLocal) ELSE isoformat(when.t)

\* does the body of the per-record try raise (the record is then skipped)
RecordRaises(a, raw) ==
    \/ raw.shape = "broken"
    \/ CASE Adapters[a] = "Google Places" -> FALSE
         [] Adapters[a] = "Meetup" ->
                \/ MeetupTimeRaises(raw.when)
                \/ LowerRaises(GetOr(raw.name, Str("Unknown Event")))
         [] OTHER -> LowerRaises(GetOr(raw.name, Str("Unknown Event")))

\* the dict the adapter appends for a record that does not raise
ToEvent(a, raw, t) ==
    CASE Adapters[a] = "Google Places" ->
            Event(Str("Events at " \o FormatStr(GetOr(raw.name, Str("Unknown Venue")))),
                  GetOr(raw.name, Str("Unknown Venue")),
                  isoformat(t), Adapters[a])
      [] Adapters[a] = "Meetup" ->
            Event(GetOr(raw.name, Str("Unknown Event")),
                  GetOr(raw.venue, Str("Unknown Venue")),
                  MeetupStart(raw.when), Adapters[a])
      [] OTHER ->
            Event(GetOr(raw.name, Str("Unknown Event")),
                  GetOr(raw.venue, Str("Unknown Venue")),
                  GetOr(raw.when, EmptyStr), Adapters[a])

\* the payloads a source may answer with
GoodRecord == Raw("dict", Str("Jazz Festival"), Str("Club Soda"), Naive(T0 + 5))
BrokenRecord == Raw("broken", Str("Broken"), Str("Nowhere"), Naive(T0))
ShortNameRecord == Raw("dict", Str("ab"), Str("Club Soda"), Naive(T0))
\* starts exactly 30 days before T0; the venue is the empty string
EdgeRecord == Raw("dict", Str("Film Night"), Str(""), Naive(T0 - Days(30)))
ZuluRecord == Raw("dict", Str("Comedy Gala"), Str("Olympia"), Zulu(T0 + 4))
StaleRecord == Raw("dict", Str("Old Fair"), Str("Olympia"), Naive(T0 - Days(31)))
GarbageDateRecord == Raw("dict", Str("Food Fair"), Str("Old Port"), Garbage)
NullNameRecord == Raw("dict", None, Str("Old Port"), Naive(T0))
EpochRecord == Raw("dict", Missing, Missing, [NoDate("int") EXCEPT !.t = T0 + 2])

MixedPayload == <<GoodRecord, BrokenRecord, ShortNameRecord, EdgeRecord>>
AwkwardPayload ==
    <<ZuluRecord, StaleRecord, NullNameRecord, GarbageDateRecord, EpochRecord>>
\* every fourth record is stale, the others start at distinct hours after T0
BulkPayload ==
    [i \in 1..BulkSize |->
        IF i % 4 = 0 THEN StaleRecord
        ELSE Raw("dict", Str("Osheaga"), Str("Parc Jean-Drapeau"), Naive(T0 + i))]

PayloadNames == {"empty", "mixed", "awkward", "bulk"}

RecordsOf(response) ==
    CASE response.payload = "mixed" -> MixedPayload
      [] response.payload = "awkward" -> AwkwardPayload
      [] response.payload = "bulk" -> BulkPayload
      [] OTHER -> <<>>

RECURSIVE ParseRecords(_, _, _)

\* faulty variant: the first record that raises ends the loop
ParseRecords_stops_at_bad_record(a, records, t) ==
    IF records = <<>> THEN <<>>
    ELSE IF RecordRaises(a, Head(records)) THEN <<>>
    ELSE <<ToEvent(a, Head(records), t)>> \o ParseRecords(a, Tail(records), t)

\* the for loop over the payload: try: events.append(...) except: log
ParseRecords(a, records, t) ==
    IF records = <<>> THEN <<>>
    ELSE (IF RecordRaises(a, Head(records)) THEN <<>>
          ELSE <<ToEvent(a, Head(records), t)>>)
         \o ParseRecords(a, Tail(records), t)

\* what the remote end answers: session.get raises, a status other than 200,
\* a 200 whose JSON has the wrong shape, or a 200 with a list of records (the
\* state names the payload, RecordsOf gives its records)
Failure(kind) == [kind |-> kind, payload |-> "none"]
Ok(payload) == [kind |-> "ok", payload |-> payload]
Unreached == [kind |-> "none", payload |-> "none"]
FailureKinds == {"raises", "non200", "badshape"}

\* what a method returns to its caller: a list, or an exception that escapes it
Returns(events) == [raised |-> FALSE, events |-> events]
Escapes == [raised |-> TRUE, events |-> <<>>]

\* faulty variant: no try around the fetch, so its exceptions escape
_get_events_uncaught(a, src, t) ==
    IF NeedsKey(a) /\ ~ src.key THEN Returns(<<>>)
    ELSE IF src.response.kind = "ok"
         THEN Returns(ParseRecords(a, RecordsOf(src.response), t))
    ELSE IF src.response.kind = "non200" THEN Returns(<<>>)
    ELSE Escapes

\* one _get_*_events method: the credential check, then a try around the fetch
\* and the parse whose except logs and falls through to return []
_get_events(a, src, t) ==
    IF NeedsKey(a) /\ ~ src.key THEN Returns(<<>>)
    ELSE IF src.response.kind = "ok"
         THEN Returns(ParseRecords(a, RecordsOf(src.response), t))
    ELSE Returns(<<>>)

----------------------------------------------------------------------------
(* APIIntegrations.get_live_festivals *)

\* valid_festivals[:50]
MaxFestivals == 50

Take(seq, n) == SubSeq(seq, 1, IF Len(seq) < n THEN Len(seq) ELSE n)

RECURSIVE ExtendFrom(_, _, _)

\* faulty variant: each batch is put in front of the list
ExtendFrom_reversed(a, src, t) ==
    IF a > Len(Adapters) THEN Returns(<<>>)
    ELSE LET got == _get_events(a, src[a], t)
             rest == ExtendFrom(a + 1, src, t)
         IN  IF got.raised \/ rest.raised THEN Escapes
             ELSE Returns(rest.events \o got.events)

\* festivals after the festivals.extend(...) calls for adapter a and those after
\* it; an exception escaping an adapter ends the try block
ExtendFrom(a, src, t) ==
    IF a > Len(Adapters) THEN Returns(<<>>)
    ELSE LET got == _get_events(a, src[a], t)
             rest == ExtendFrom(a + 1, src, t)
         IN  IF got.raised \/ rest.raised THEN Escapes
             ELSE Returns(got.events \o rest.events)

RECURSIVE FilterValid(_, _)

\* faulty variant: a valid festival is put behind those that follow it
FilterValid_reversed(festivals, t) ==
    IF festivals = <<>> THEN <<>>
    ELSE FilterValid(Tail(festivals), t)
         \o (IF _is_valid_festival(Head(festivals), t) THEN <<Head(festivals)>> ELSE <<>>)

\* for festival in festivals: if self._is_valid_festival(...): append
FilterValid(festivals, t) ==
    IF festivals = <<>> THEN <<>>
    ELSE (IF _is_valid_festival(Head(festivals), t) THEN <<Head(festivals)>> ELSE <<>>)
         \o FilterValid(Tail(festivals), t)

\* faulty variant: the list is cut to 50 before it is filtered
get_live_festivals_truncates_first(src, t) ==
    LET festivals == ExtendFrom(1, src, t)
    IN  IF festivals.raised THEN <<>>
        ELSE FilterValid(Take(festivals.events, MaxFestivals), t)

\* except Exception: return []
get_live_festivals(src, t) ==
    LET festivals == ExtendFrom(1, src, t)
    IN  IF festivals.raised THEN <<>>
        ELSE Take(FilterValid(festivals.events, t), MaxFestivals)

----------------------------------------------------------------------------
(* festival_service.py *)

\* faulty variant: the seed list in order of start date
_get_fallback_festivals_by_date ==
    << Event(Str("Montreal Jazz Festival"), Str("Quartier des Spectacles"),
             Naive(Date2024(6, 27, 18)), "Fallback Data"),
       Event(Str("Just for Laughs Comedy Festival"), Str("Quartier Latin"),
             Naive(Date2024(7, 10, 19)), "Fallback Data"),
       Event(Str("Montreal Food Festival"), Str("Old Port of Montreal"),
             Naive(Date2024(7, 15, 11)), "Fallback Data"),
       Event(Str("Osheaga Music Festival"), Str("Parc Jean-Drapeau"),
             Naive(Date2024(8, 2, 12)), "Fallback Data"),
       Event(Str("Montreal International Film Festival"), Str("Various Cinemas"),
             Naive(Date2024(8, 22, 10)), "Fallback Data") >>

_get_fallback_festivals ==
    << Event(Str("Montreal Jazz Festival"), Str("Quartier des Spectacles"),
             Naive(Date2024(6, 27, 18)), "Fallback Data"),
       Event(Str("Osheaga Music Festival"), Str("Parc Jean-Drapeau"),
             Naive(Date2024(8, 2, 12)), "Fallback Data"),
       Event(Str("Just for Laughs Comedy Festival"), Str("Quartier Latin"),
             Naive(Date2024(7, 10, 19)), "Fallback Data"),
       Event(Str("Montreal International Film Festival"), Str("Various Cinemas"),
             Naive(Date2024(8, 22, 10)), "Fallback Data"),
       Event(Str("Montreal Food Festival"), Str("Old Port of Montreal"),
             Naive(Date2024(7, 15, 11)), "Fallback Data") >>

\* faulty variant: an empty live list is returned as it is
get_ongoing_festivals_no_fallback(raised, festivals) ==
    IF raised THEN _get_fallback_festivals
    ELSE festivals

\* raised: get_live_festivals_from_apis() raised; festivals: what it returned
get_ongoing_festivals(raised, festivals) ==
    IF raised THEN _get_fallback_festivals
    ELSE IF festivals = <<>> THEN _get_fallback_festivals
    ELSE festivals

----------------------------------------------------------------------------
(* Text: a Python str is the sequence of its characters *)

\* c.lower() for one character
LowerChar(c) ==
    LET UpperCase ==
            << "A", "B", "C", "D", "E", "F", "G", "H", "I", "J", "K", "L", "M",
               "N", "O", "P", "Q", "R", "S", "T", "U", "V", "W", "X", "Y", "Z" >>
        LowerCase ==
            << "a", "b", "c", "d", "e", "f", "g", "h", "i", "j", "k", "l", "m",
               "n", "o", "p", "q", "r", "s", "t", "u", "v", "w", "x", "y", "z" >>
    IN  IF \E i \in 1..Len(UpperCase) : UpperCase[i] = c
        THEN LowerCase[CHOOSE i \in 1..Len(UpperCase) : UpperCase[i] = c]
        ELSE c

\* s.lower()
RECURSIVE lower(_)
lower(s) == IF s = <<>> THEN <<>> ELSE <<LowerChar(Head(s))>> \o lower(Tail(s))

\* sub in s
Contains(sub, s) ==
    \E i \in 1..(Len(s) - Len(sub) + 1) : SubSeq(s, i, i + Len(sub) - 1) = sub

\* any(word in s for word in words)
AnyIn(words, s) == \E i \in 1..Len(words) : Contains(words[i], s)

\* word in words
IsIn(word, words) == \E i \in 1..Len(words) : words[i] = word

\* a value passed where a str is expected: a str, or None
Text(cs) == [ty |-> "str", cs |-> cs]
NoText == [ty |-> "none", cs |-> <<>>]

\* a datetime: aware says whether it carries a tzinfo, t is the hour its wall
\* clock spells (hours since 2024-01-01T00:00), off its UTC offset, minute the
\* minutes past that hour
Datetime(aware, t, off, minute) == [aware |-> aware, t |-> t, off |-> off, minute |-> minute]

Criteria(cat, d, tm) == [category |-> cat, day |-> d, time |-> tm]

Festival(name, cat, start_date, end_date) ==
    [name |-> name, category |-> cat, start_date |-> start_date, end_date |-> end_date]

\* s.split(): the maximal runs of non-whitespace characters, left to right
RECURSIVE SplitFrom(_, _)
SplitFrom(s, word) ==
    IF s = <<>> THEN (IF word = <<>> THEN <<>> ELSE <<word>>)
    ELSE IF Head(s) \in {" ", "\t", "\n"}
         THEN (IF word = <<>> THEN <<>> ELSE <<word>>) \o SplitFrom(Tail(s), <<>>)
    ELSE SplitFrom(Tail(s), Append(word, Head(s)))

split(s) == SplitFrom(s, <<>>)

\* ' '.join(words)
RECURSIVE Join(_)
Join(words) ==
    IF words = <<>> THEN <<>>
    ELSE IF Len(words) = 1 THEN words[1]
    ELSE words[1] \o <<" ">> \o Join(Tail(words))

----------------------------------------------------------------------------
(* APIIntegrations._categorize_event *)

\* the keyword list each branch of the if/elif chain tests
event_keywords ==
    [ music |->
          << <<"m", "u", "s", "i", "c">>, <<"c", "o", "n", "c", "e", "r", "t">>,
             <<"j", "a", "z", "z">>, <<"r", "o", "c", "k">>, <<"p", "o", "p">>,
             <<"b", "a", "n", "d">>, <<"s", "i", "n", "g", "e", "r">>,
             <<"f", "e", "s", "t", "i", "v", "a", "l">> >>,
      film |->
          << <<"f", "i", "l", "m">>, <<"m", "o", "v", "i", "e">>,
             <<"c", "i", "n", "e", "m", "a">>,
             <<"d", "o", "c", "u", "m", "e", "n", "t", "a", "r", "y">>,
             <<"s", "c", "r", "e", "e", "n", "i", "n", "g">>,
             <<"f", "e", "s", "t", "i", "v", "a", "l">> >>,
      food |->
          << <<"f", "o", "o", "d">>, <<"c", "u", "l", "i", "n", "a", "r", "y">>,
             <<"w", "i", "n", "e">>, <<"b", "e", "e", "r">>, <<"t", "a", "s", "t", "e">>,
             <<"d", "i", "n", "i", "n", "g">>,
             <<"r", "e", "s", "t", "a", "u", "r", "a", "n", "t">>,
             <<"f", "e", "s", "t", "i", "v", "a", "l">> >>,
      art |->
          << <<"a", "r", "t">>, <<"e", "x", "h", "i", "b", "i", "t", "i", "o", "n">>,
             <<"g", "a", "l", "l", "e", "r", "y">>, <<"m", "u", "s", "e", "u", "m">>,
             <<"p", "a", "i", "n", "t", "i", "n", "g">>,
             <<"s", "c", "u", "l", "p", "t", "u", "r", "e">>,
             <<"f", "e", "s", "t", "i", "v", "a", "l">> >>,
      comedy |->
          << <<"c", "o", "m", "e", "d", "y">>, <<"s", "t", "a", "n", "d", "u", "p">>,
             <<"h", "u", "m", "o", "r">>, <<"l", "a", "u", "g", "h">>,
             <<"j", "o", "k", "e">>, <<"f", "e", "s", "t", "i", "v", "a", "l">> >>,
      dance |->
          << <<"d", "a", "n", "c", "e">>, <<"b", "a", "l", "l", "e", "t">>,
             <<"p", "e", "r", "f", "o", "r", "m", "a", "n", "c", "e">>,
             <<"t", "h", "e", "a", "t", "r", "e">>, <<"t", "h", "e", "a", "t", "e", "r">>,
             <<"f", "e", "s", "t", "i", "v", "a", "l">> >> ]

\* faulty variant: the art keywords are tried before the music keywords
_categorize_event_art_first(name) ==
    LET event_lower == lower(name) IN
    IF AnyIn(event_keywords.art, event_lower) THEN "art"
    ELSE IF AnyIn(event_keywords.music, event_lower) THEN "music"
    ELSE IF AnyIn(event_keywords.film, event_lower) THEN "film"
    ELSE IF AnyIn(event_keywords.food, event_lower) THEN "food"
    ELSE IF AnyIn(event_keywords.comedy, event_lower) THEN "comedy"
    ELSE IF AnyIn(event_keywords.dance, event_lower) THEN "dance"
    ELSE "other"

\* faulty variant: the music branch does not list "festival"
_categorize_event_music_without_festival(name) ==
    LET event_lower == lower(name) IN
    IF AnyIn(SubSeq(event_keywords.music, 1, 7), event_lower) THEN "music"
    ELSE IF AnyIn(event_keywords.film, event_lower) THEN "film"
    ELSE IF AnyIn(event_keywords.food, event_lower) THEN "food"
    ELSE IF AnyIn(event_keywords.art, event_lower) THEN "art"
    ELSE IF AnyIn(event_keywords.comedy, event_lower) THEN "comedy"
    ELSE IF AnyIn(event_keywords.dance, event_lower) THEN "dance"
    ELSE "other"

\* the if/elif chain over the keyword lists
_categorize_event(name) ==
    LET event_lower == lower(name) IN
    IF AnyIn(event_keywords.music, event_lower) THEN "music"
    ELSE IF AnyIn(event_keywords.film, event_lower) THEN "film"
    ELSE IF AnyIn(event_keywords.food, event_lower) THEN "food"
    ELSE IF AnyIn(event_keywords.art, event_lower) THEN "art"
    ELSE IF AnyIn(event_keywords.comedy, event_lower) THEN "comedy"
    ELSE IF AnyIn(event_keywords.dance, event_lower) THEN "dance"
    ELSE "other"

----------------------------------------------------------------------------
(* MontrealFestivalAssistant._parse_user_input *)

\* the dicts of the parser, in insertion order
category_keywords ==
    << [key |-> <<"m", "u", "s", "i", "c">>,
        keywords |-> <<<<"m", "u", "s", "i", "c">>, <<"c", "o", "n", "c", "e", "r", "t">>, <<"j", "a", "z", "z">>, <<"r", "o", "c", "k">>, <<"p", "o", "p">>>>],
       [key |-> <<"f", "i", "l", "m">>,
        keywords |-> <<<<"f", "i", "l", "m">>, <<"m", "o", "v", "i", "e">>, <<"c", "i", "n", "e", "m", "a">>, <<"d", "o", "c", "u", "m", "e", "n", "t", "a", "r", "y">>>>],
       [key |-> <<"f", "o", "o", "d">>,
        keywords |-> <<<<"f", "o", "o", "d">>, <<"c", "u", "l", "i", "n", "a", "r", "y">>, <<"w", "i", "n", "e">>, <<"b", "e", "e", "r">>, <<"t", "a", "s", "t", "e">>>>],
       [key |-> <<"a", "r", "t">>,
        keywords |-> <<<<"a", "r", "t">>, <<"e", "x", "h", "i", "b", "i", "t", "i", "o", "n">>, <<"g", "a", "l", "l", "e", "r", "y">>, <<"m", "u", "s", "e", "u", "m">>>>],
       [key |-> <<"c", "o", "m", "e", "d", "y">>,
        keywords |-> <<<<"c", "o", "m", "e", "d", "y">>, <<"s", "t", "a", "n", "d", "u", "p">>, <<"h", "u", "m", "o", "r">>>>],
       [key |-> <<"d", "a", "n", "c", "e">>,
        keywords |-> <<<<"d", "a", "n", "c", "e">>, <<"b", "a", "l", "l", "e", "t">>, <<"p", "e", "r", "f", "o", "r", "m", "a", "n", "c", "e">>>>] >>

\* day_keywords
day_keywords ==
    << [key |-> <<"t", "o", "d", "a", "y">>,
        keywords |-> <<<<"t", "o", "d", "a", "y">>, <<"n", "o", "w">>>>],
       [key |-> <<"t", "o", "m", "o", "r", "r", "o", "w">>,
        keywords |-> <<<<"t", "o", "m", "o", "r", "r", "o", "w">>>>],
       [key |-> <<"t", "o", "n", "i", "g", "h", "t">>,
        keywords |-> <<<<"t", "o", "n", "i", "g", "h", "t">>>>],
       [key |-> <<"m", "o", "n", "d", "a", "y">>,
        keywords |-> <<<<"m", "o", "n", "d", "a", "y">>, <<"m", "o", "n">>>>],
       [key |-> <<"t", "u", "e", "s", "d", "a", "y">>,
        keywords |-> <<<<"t", "u", "e", "s", "d", "a", "y">>, <<"t", "u", "e">>>>],
       [key |-> <<"w", "e", "d", "n", "e", "s", "d", "a", "y">>,
        keywords |-> <<<<"w", "e", "d", "n", "e", "s", "d", "a", "y">>, <<"w", "e", "d">>>>],
       [key |-> <<"t", "h", "u", "r", "s", "d", "a", "y">>,
        keywords |-> <<<<"t", "h", "u", "r", "s", "d", "a", "y">>, <<"t", "h", "u">>>>],
       [key |-> <<"f", "r", "i", "d", "a", "y">>,
        keywords |-> <<<<"f", "r", "i", "d", "a", "y">>, <<"f", "r", "i">>>>],
       [key |-> <<"s", "a", "t", "u", "r", "d", "a", "y">>,
        keywords |-> <<<<"s", "a", "t", "u", "r", "d", "a", "y">>, <<"s", "a", "t">>>>],
       [key |-> <<"s", "u", "n", "d", "a", "y">>,
        keywords |-> <<<<"s", "u", "n", "d", "a", "y">>, <<"s", "u", "n">>>>] >>

\* time_keywords
time_keywords ==
    << [key |-> <<"m", "o", "r", "n", "i", "n", "g">>,
        keywords |-> <<<<"m", "o", "r", "n", "i", "n", "g">>, <<"a", "m">>>>],
       [key |-> <<"a", "f", "t", "e", "r", "n", "o", "o", "n">>,
        keywords |-> <<<<"a", "f", "t", "e", "r", "n", "o", "o", "n">>, <<"p", "m">>>>],
       [key |-> <<"e", "v", "e", "n", "i", "n", "g">>,
        keywords |-> <<<<"e", "v", "e", "n", "i", "n", "g">>, <<"n", "i", "g", "h", "t">>>>],
       [key |-> <<"n", "i", "g", "h", "t">>,
        keywords |-> <<<<"n", "i", "g", "h", "t">>>>] >>

\* the if/elif chain that infers the category from substrings, in its order
inferred_keywords ==
    << [key |-> <<"m", "u", "s", "i", "c">>,
        keywords |-> <<<<"m", "u", "s", "i", "c">>, <<"c", "o", "n", "c", "e", "r", "t">>, <<"j", "a", "z", "z">>>>],
       [key |-> <<"f", "o", "o", "d">>,
        keywords |-> <<<<"f", "o", "o", "d">>, <<"c", "u", "l", "i", "n", "a", "r", "y">>, <<"r", "e", "s", "t", "a", "u", "r", "a", "n", "t">>>>],
       [key |-> <<"c", "o", "m", "e", "d", "y">>,
        keywords |-> <<<<"c", "o", "m", "e", "d", "y">>, <<"h", "u", "m", "o", "r">>, <<"s", "t", "a", "n", "d", "u", "p">>>>],
       [key |-> <<"a", "r", "t">>,
        keywords |-> <<<<"a", "r", "t">>, <<"e", "x", "h", "i", "b", "i", "t", "i", "o", "n">>, <<"g", "a", "l", "l", "e", "r", "y">>>>],
       [key |-> <<"d", "a", "n", "c", "e">>,
        keywords |-> <<<<"d", "a", "n", "c", "e">>, <<"b", "a", "l", "l", "e", "t">>>>],
       [key |-> <<"f", "i", "l", "m">>,
        keywords |-> <<<<"f", "i", "l", "m">>, <<"m", "o", "v", "i", "e">>, <<"c", "i", "n", "e", "m", "a">>>>] >>

\* the str literals the parser and the matcher compare with
Lit ==
    [ music |-> <<"m", "u", "s", "i", "c">>,
      today |-> <<"t", "o", "d", "a", "y">>,
      tonight |-> <<"t", "o", "n", "i", "g", "h", "t">>,
      morning |-> <<"m", "o", "r", "n", "i", "n", "g">>,
      afternoon |-> <<"a", "f", "t", "e", "r", "n", "o", "o", "n">>,
      evening |-> <<"e", "v", "e", "n", "i", "n", "g">>,
      night |-> <<"n", "i", "g", "h", "t">>,
      now |-> <<"n", "o", "w">>,
      tomorrow |-> <<"t", "o", "m", "o", "r", "r", "o", "w">>,
      am |-> <<"a", "m">>,
      pm |-> <<"p", "m">> ]

\* the entries of a table one of whose keywords is the word
Entries(word, table) == {i \in 1..Len(table) : IsIn(word, table[i].keywords)}

First(positions) == CHOOSE i \in positions : \A j \in positions : i <= j

\* the result of a scan: found, and the key of the entry that matched
Scanned(found, key) == [found |-> found, key |-> key]

RECURSIVE Lookup(_, _)

\* faulty variant: a later token that is a keyword replaces an earlier one
Lookup_last_token(words, table) ==
    IF words = <<>> THEN Scanned(FALSE, <<>>)
    ELSE IF Lookup(Tail(words), table).found THEN Lookup(Tail(words), table)
    ELSE IF Entries(Head(words), table) # {}
         THEN Scanned(TRUE, table[First(Entries(Head(words), table))].key)
    ELSE Scanned(FALSE, <<>>)

\* for word in words: for key, keywords in table.items(): if word in keywords:
\* take key and leave both loops
Lookup(words, table) ==
    IF words = <<>> THEN Scanned(FALSE, <<>>)
    ELSE IF Entries(Head(words), table) # {}
         THEN Scanned(TRUE, table[First(Entries(Head(words), table))].key)
    ELSE Lookup(Tail(words), table)

\* the if/elif chain of any(word in input_lower for word in [...])
Inferred(input_lower) ==
    LET hits == {i \in 1..Len(inferred_keywords) :
                    AnyIn(inferred_keywords[i].keywords, input_lower)} IN
    IF hits = {} THEN Scanned(FALSE, <<>>) ELSE Scanned(TRUE, inferred_keywords[First(hits)].key)

\* current_time.hour
HourOf(t) == t % 24

\* faulty variant: the evening starts at 18 instead of 17
InferredTime_evening_from_18(current_hour) ==
    IF 6 <= current_hour /\ current_hour < 12 THEN Lit.morning
    ELSE IF 12 <= current_hour /\ current_hour < 18 THEN Lit.afternoon
    ELSE IF 18 <= current_hour /\ current_hour < 22 THEN Lit.evening
    ELSE Lit.night

\* the time of day inferred from the current hour
InferredTime(current_hour) ==
    IF 6 <= current_hour /\ current_hour < 12 THEN Lit.morning
    ELSE IF 12 <= current_hour /\ current_hour < 17 THEN Lit.afternoon
    ELSE IF 17 <= current_hour /\ current_hour < 22 THEN Lit.evening
    ELSE Lit.night

\* faulty variant: "tonight" as the day also sets the time to evening
_parse_user_input_tonight_sets_time(input, cur) ==
    LET input_lower == lower(input)
        words == split(input_lower)
        cat == Lookup(words, category_keywords)
        d == Lookup(words, day_keywords)
        tm == Lookup(words, time_keywords)
    IN  Criteria(
            Text(IF cat.found THEN cat.key
                 ELSE IF Inferred(input_lower).found THEN Inferred(input_lower).key
                 ELSE Lit.music),
            Text(IF d.found THEN d.key ELSE Lit.today),
            Text(IF tm.found THEN tm.key
                 ELSE IF d.found /\ d.key = Lit.tonight THEN Lit.evening
                 ELSE InferredTime(HourOf(cur))))

\* cur: what get_current_montreal_time() returns during the call
_parse_user_input(input, cur) ==
    LET input_lower == lower(input)
        words == split(input_lower)
        cat == Lookup(words, category_keywords)
        d == Lookup(words, day_keywords)
        tm == Lookup(words, time_keywords)
    IN  Criteria(
            Text(IF cat.found THEN cat.key
                 ELSE IF Inferred(input_lower).found THEN Inferred(input_lower).key
                 ELSE Lit.music),
            Text(IF d.found THEN d.key ELSE Lit.today),
            Text(IF tm.found THEN tm.key ELSE InferredTime(HourOf(cur))))

----------------------------------------------------------------------------
(* datetime.strptime with the formats "%Y-%m-%d" and "%H:%M" *)

\* the value of a decimal digit, -1 for any other character
DigitValue(c) ==
    LET Digits == <<"0", "1", "2", "3", "4", "5", "6", "7", "8", "9">> IN
    IF \E i \in 1..Len(Digits) : Digits[i] = c
    THEN (CHOOSE i \in 1..Len(Digits) : Digits[i] = c) - 1
    ELSE 0 - 1

\* one or two digits, as %m, %d, %H and %M take them
ShortNumber(cs) == Len(cs) \in {1, 2} /\ \A i \in 1..Len(cs) : DigitValue(cs[i]) >= 0

RECURSIVE Number(_)
Number(cs) ==
    IF cs = <<>> THEN 0
    ELSE 10 * Number(SubSeq(cs, 1, Len(cs) - 1)) + DigitValue(cs[Len(cs)])

\* the fields of s between the occurrences of the separator
RECURSIVE FieldsFrom(_, _, _)
FieldsFrom(s, sep, field) ==
    IF s = <<>> THEN <<field>>
    ELSE IF Head(s) = sep THEN <<field>> \o FieldsFrom(Tail(s), sep, <<>>)
    ELSE FieldsFrom(Tail(s), sep, Append(field, Head(s)))

Fields(s, sep) == FieldsFrom(s, sep, <<>>)

IsLeap(year) == year % 4 = 0 /\ (year % 100 # 0 \/ year % 400 = 0)

DaysInMonth(year, month) ==
    IF month = 2 /\ IsLeap(year) THEN 29
    ELSE <<31, 28, 31, 30, 31, 30, 31, 31, 30, 31, 30, 31>>[month]

\* date(year, month, day) as days since 2024-01-01
DayNumber(year, month, day) ==
    LET LeapsBefore(y) == ((y - 1) \div 4) - ((y - 1) \div 100) + ((y - 1) \div 400) IN
    365 * (year - 2024) + LeapsBefore(year) - LeapsBefore(2024)
    + MonthStart2024[month] - (IF month > 2 /\ ~ IsLeap(year) THEN 1 ELSE 0)
    + day - 1

\* does strptime(s, "%Y-%m-%d") return (it raises ValueError otherwise)
DateParses(s) ==
    LET f == Fields(s, "-") IN
    /\ Len(f) = 3
    /\ Len(f[1]) = 4 /\ \A i \in 1..4 : DigitValue(f[1][i]) >= 0
    /\ Number(f[1]) >= 1
    /\ ShortNumber(f[2]) /\ Number(f[2]) \in 1..12
    /\ ShortNumber(f[3]) /\ Number(f[3]) \in 1..DaysInMonth(Number(f[1]), Number(f[2]))

\* strptime(s, "%Y-%m-%d").date()
strptime_date(s) ==
    LET f == Fields(s, "-") IN DayNumber(Number(f[1]), Number(f[2]), Number(f[3]))

\* does strptime(s, "%H:%M") return
TimeParses(s) ==
    LET f == Fields(s, ":") IN
    /\ Len(f) = 2
    /\ ShortNumber(f[1]) /\ Number(f[1]) <= 23
    /\ ShortNumber(f[2]) /\ Number(f[2]) <= 59

\* strptime(s, "%H:%M").time(), as minutes past midnight
strptime_time(s) ==
    LET f == Fields(s, ":") IN 60 * Number(f[1]) + Number(f[2])

----------------------------------------------------------------------------
(* MontrealFestivalAssistant._parse_datetime and _get_next_weekday *)

\* current_time.date() as days since 2024-01-01, and date.weekday() (Monday is
\* 0; 2024-01-01 is a Monday)
DateOf(t) == t \div 24
Weekday(date) == date % 7

\* current_time.time(), as minutes past midnight
TimeOf(t) == 60 * HourOf(t)

\* faulty variant: today counts as the next occurrence of its own weekday
_get_next_weekday_allows_today(weekday, cur) ==
    LET today == DateOf(cur)
        days_ahead == weekday - Weekday(today)
    IN  IF days_ahead < 0 THEN today + days_ahead + 7 ELSE today + days_ahead

_get_next_weekday(weekday, cur) ==
    LET today == DateOf(cur)
        days_ahead == weekday - Weekday(today)
    IN  IF days_ahead <= 0 THEN today + days_ahead + 7 ELSE today + days_ahead

\* the names the elif chain tests for weekday 0 (Monday) to 6 (Sunday)
weekday_names ==
    << <<<<"m", "o", "n", "d", "a", "y">>, <<"m", "o", "n">>>>,
       <<<<"t", "u", "e", "s", "d", "a", "y">>, <<"t", "u", "e">>>>,
       <<<<"w", "e", "d", "n", "e", "s", "d", "a", "y">>, <<"w", "e", "d">>>>,
       <<<<"t", "h", "u", "r", "s", "d", "a", "y">>, <<"t", "h", "u">>>>,
       <<<<"f", "r", "i", "d", "a", "y">>, <<"f", "r", "i">>>>,
       <<<<"s", "a", "t", "u", "r", "d", "a", "y">>, <<"s", "a", "t">>>>,
       <<<<"s", "u", "n", "d", "a", "y">>, <<"s", "u", "n">>>> >>


\* faulty variant: text that is no date resolves to tomorrow
TargetDate_defaults_to_tomorrow(day, day_lower, cur) ==
    IF day_lower \in {Lit.today, Lit.now, Lit.tonight} THEN DateOf(cur)
    ELSE IF day_lower = Lit.tomorrow THEN DateOf(cur + Days(1))
    ELSE IF \E k \in 1..Len(weekday_names) : IsIn(day_lower, weekday_names[k])
         THEN _get_next_weekday(
                  (CHOOSE k \in 1..Len(weekday_names) : IsIn(day_lower, weekday_names[k])) - 1,
                  cur)
    ELSE IF DateParses(day) THEN strptime_date(day)
    ELSE DateOf(cur + Days(1))

\* target_date: the elif chain over day_lower, then strptime on the text as given
TargetDate(day, day_lower, cur) ==
    IF day_lower \in {Lit.today, Lit.now, Lit.tonight} THEN DateOf(cur)
    ELSE IF day_lower = Lit.tomorrow THEN DateOf(cur + Days(1))
    ELSE IF \E k \in 1..Len(weekday_names) : IsIn(day_lower, weekday_names[k])
         THEN _get_next_weekday(
                  (CHOOSE k \in 1..Len(weekday_names) : IsIn(day_lower, weekday_names[k])) - 1,
                  cur)
    ELSE IF DateParses(day) THEN strptime_date(day)
    ELSE DateOf(cur)

\* faulty variant: evening is 20:00
TargetTime_evening_at_20(time, time_lower, cur) ==
    IF time_lower \in {Lit.morning, Lit.am} THEN strptime_time(<<"0", "9", ":", "0", "0">>)
    ELSE IF time_lower \in {Lit.afternoon, Lit.pm} THEN strptime_time(<<"1", "4", ":", "0", "0">>)
    ELSE IF time_lower \in {Lit.evening, Lit.night} THEN strptime_time(<<"2", "0", ":", "0", "0">>)
    ELSE IF TimeParses(time) THEN strptime_time(time)
    ELSE TimeOf(cur)

\* target_time, as minutes past midnight
TargetTime(time, time_lower, cur) ==
    IF time_lower \in {Lit.morning, Lit.am} THEN strptime_time(<<"0", "9", ":", "0", "0">>)
    ELSE IF time_lower \in {Lit.afternoon, Lit.pm} THEN strptime_time(<<"1", "4", ":", "0", "0">>)
    ELSE IF time_lower \in {Lit.evening, Lit.night} THEN strptime_time(<<"1", "9", ":", "0", "0">>)
    ELSE IF TimeParses(time) THEN strptime_time(time)
    ELSE TimeOf(cur)

\* MONTREAL_TZ.localize(datetime.combine(target_date, target_time))
Localized(date, minutes) ==
    Datetime(TRUE, Days(date) + (minutes \div 60), MontrealUtcOffset, minutes % 60)

\* get_current_montreal_time()
CurrentTime(cur) == Datetime(TRUE, cur, MontrealUtcOffset, 0)

\* faulty variant: "tonight" leaves the time text as it is
_parse_datetime_tonight_keeps_time(day, time, cur) ==
    IF day.ty # "str" \/ time.ty # "str" THEN CurrentTime(cur)
    ELSE Localized(TargetDate(day.cs, lower(day.cs), cur),
                   TargetTime(time.cs, lower(time.cs), cur))

_parse_datetime(day, time, cur) ==
    \* .lower() on a non-str raises AttributeError: the except returns the current time
    IF day.ty # "str" \/ time.ty # "str" THEN CurrentTime(cur)
    ELSE LET day_lower == lower(day.cs)
             time_lower == IF day_lower = Lit.tonight THEN Lit.evening ELSE lower(time.cs)
         IN  Localized(TargetDate(day.cs, day_lower, cur),
                       TargetTime(time.cs, time_lower, cur))

----------------------------------------------------------------------------
(* MontrealFestivalAssistant._is_festival_at_time *)

\* a date string of the form 'YYYY-MM-DD'; t is the midnight that starts the day
DateOnly(t) == DateStr("date", t, 0)

\* 'T' in s
ContainsT(d) == d.form \in {"naive", "zulu", "offset"}

\* does the parsing branch taken for the string return (ValueError otherwise)
FestivalDateParses(d) == IF ContainsT(d) THEN IsoParses(d) ELSE d.form = "date"

\* MONTREAL_TZ.localize(dt) for a naive dt; an aware dt is left as it is
Localize(dt) ==
    IF dt.aware THEN dt ELSE [dt EXCEPT !.aware = TRUE, !.off = MontrealUtcOffset]

\* fromisoformat, or strptime(s, "%Y-%m-%d") followed by localize
FestivalDate(d) ==
    IF ContainsT(d) THEN Localize(fromisoformat(d))
    ELSE [aware |-> TRUE, t |-> d.t, off |-> MontrealUtcOffset]

\* the instant an aware datetime denotes, in minutes on the Montreal clock
Instant(dt) ==
    60 * LocalClock(dt) + (IF "minute" \in DOMAIN dt THEN dt.minute ELSE 0)

\* faulty variant: the end of the festival is excluded
_is_festival_at_time_end_exclusive(f, target) ==
    IF f.start_date.ty # "str" \/ f.end_date.ty # "str" THEN FALSE
    ELSE IF ~ FestivalDateParses(ReplaceZ(f.start_date)) THEN FALSE
    ELSE IF ~ FestivalDateParses(ReplaceZ(f.end_date)) THEN FALSE
    ELSE /\ Instant(FestivalDate(ReplaceZ(f.start_date))) <= Instant(Localize(target))
         /\ Instant(Localize(target)) < Instant(FestivalDate(ReplaceZ(f.end_date)))

_is_festival_at_time(f, target) ==
    \* festival['start_date'] raises KeyError, .replace on a non-str raises
    \* AttributeError: the except returns False
    IF f.start_date.ty # "str" \/ f.end_date.ty # "str" THEN FALSE
    \* fromisoformat or strptime raises ValueError: the except returns False
    ELSE IF ~ FestivalDateParses(ReplaceZ(f.start_date)) THEN FALSE
    ELSE IF ~ FestivalDateParses(ReplaceZ(f.end_date)) THEN FALSE
    ELSE /\ Instant(FestivalDate(ReplaceZ(f.start_date))) <= Instant(Localize(target))
         /\ Instant(Localize(target)) <= Instant(FestivalDate(ReplaceZ(f.end_date)))

----------------------------------------------------------------------------
(* MontrealFestivalAssistant.get_festivals_by_criteria *)

\* ['any', 'all', '']
NoCriterion == {<<"a", "n", "y">>, <<"a", "l", "l">>, <<>>}

\* category.lower() in festival['name'].lower()
\*     or category.lower() in festival.get('category', '').lower()
CategoryMatch(cat, f) ==
    \/ Contains(lower(cat), lower(f.name))
    \/ Contains(lower(cat), lower(f.category))

RECURSIVE Select(_, _, _, _)

\* faulty variant: a festival is kept only when it also is on at the target time
Select_in_window_only(festivals, cat, timed, target) ==
    IF festivals = <<>> THEN <<>>
    ELSE (IF /\ CategoryMatch(cat, Head(festivals))
             /\ timed => _is_festival_at_time(Head(festivals), target)
          THEN <<Head(festivals)>> ELSE <<>>)
         \o Select(Tail(festivals), cat, timed, target)

\* the for loop over the festivals; timed says whether it is the loop that also
\* computes time_match, which is not used to decide
Select(festivals, cat, timed, target) ==
    IF festivals = <<>> THEN <<>>
    ELSE LET category_match == CategoryMatch(cat, Head(festivals))
             time_match == timed /\ _is_festival_at_time(Head(festivals), target)
         IN  (IF category_match THEN <<Head(festivals)>> ELSE <<>>)
             \o Select(Tail(festivals), cat, timed, target)

\* festivals: what get_ongoing_festivals() returned; cur: the current time
get_festivals_by_criteria(cat, d, tm, festivals, cur) ==
    \* day.lower() on a non-str raises: the except returns []
    IF d.ty # "str" THEN <<>>
    ELSE IF lower(d.cs) \in NoCriterion /\ tm.ty # "str" THEN <<>>
    \* category.lower() is reached for the first festival
    ELSE IF festivals # <<>> /\ cat.ty # "str" THEN <<>>
    ELSE IF lower(d.cs) \in NoCriterion /\ lower(tm.cs) \in NoCriterion
         THEN Select(festivals, cat.cs, FALSE, CurrentTime(cur))
    ELSE Select(festivals, cat.cs, TRUE, _parse_datetime(d, tm, cur))

----------------------------------------------------------------------------
(* The environment: credentials, remote answers, the clock *)

Responses == {Failure(k) : k \in FailureKinds} \cup {Ok(p) : p \in PayloadNames}

\* no credential in the environment; the open-data portal cannot be reached
Unconfigured(a) ==
    IF NeedsKey(a) THEN [key |-> FALSE, response |-> Unreached]
    ELSE [key |-> TRUE, response |-> Failure("raises")]

Configured(src) == {a \in AdapterIds : src[a] # Unconfigured(a)}

\* the process has started, nothing is configured, nothing was called yet
InitPipeline ==
    /\ now = T0
    /\ source = [a \in AdapterIds |-> Unconfigured(a)]
    /\ pc = "idle"
    /\ apiRaised = FALSE
    /\ live = <<>>
    /\ batch = [a \in AdapterIds |-> Returns(<<>>)]
    /\ result = <<>>

\* nothing was given to the criteria parser or to the matcher
CriteriaIdle ==
    /\ step = "idle"
    /\ event_name = <<>>
    /\ category = "pending"
    /\ user_input = <<>>
    /\ criteria = Criteria(NoText, NoText, NoText)
    /\ target_datetime = Datetime(FALSE, 0, 0, 0)
    /\ candidate = Festival(<<>>, <<>>, NoDate("missing"), NoDate("missing"))
    /\ at_time = "pending"
    /\ facade = <<>>
    /\ matching = <<>>

Init ==
    /\ InitPipeline
    /\ CriteriaIdle
    /\ AssistantIdle
    /\ festival = Event(Missing, Missing, NoDate("missing"), "")
    /\ current_date = T0
    /\ verdict = "pending"

\* the credential of source a is set and its remote end answers r
Answer(a, r) ==
    /\ pc = "idle"
    /\ source' = [source EXCEPT ![a] = [key |-> TRUE, response |-> r]]
    /\ source'[a] # source[a]
    /\ Cardinality(Configured(source')) <= MaxConfigured
    /\ UNCHANGED <<now, pc, apiRaised, live, batch, result>>
    /\ UNCHANGED validVars
    /\ UNCHANGED assistantVars
    /\ UNCHANGED criteriaVars

\* the credential of source a is removed from the environment
RemoveKey(a) ==
    /\ pc = "idle"
    /\ NeedsKey(a)
    /\ source[a].key
    /\ source' = [source EXCEPT ![a] = Unconfigured(a)]
    /\ UNCHANGED <<now, pc, apiRaised, live, batch, result>>
    /\ UNCHANGED validVars
    /\ UNCHANGED assistantVars
    /\ UNCHANGED criteriaVars

\* the wall clock advances
Tick(t) ==
    /\ pc = "idle"
    /\ t > now
    /\ now' = t
    /\ UNCHANGED <<source, pc, apiRaised, live, batch, result>>
    /\ UNCHANGED validVars
    /\ UNCHANGED assistantVars
    /\ UNCHANGED criteriaVars

\* one call of festival_service.get_ongoing_festivals()
GetOngoingFestivals(raised) ==
    /\ pc = "idle"
    /\ pc' = "returned"
    /\ apiRaised' = raised
    /\ batch' = [a \in AdapterIds |->
                    IF raised THEN Returns(<<>>) ELSE _get_events(a, source[a], now)]
    /\ live' = IF raised THEN <<>> ELSE get_live_festivals(source, now)
    /\ result' = get_ongoing_festivals(raised, live')
    /\ UNCHANGED <<now, source>>
    /\ UNCHANGED validVars
    /\ UNCHANGED assistantVars
    /\ UNCHANGED criteriaVars

\* the caller takes the list
Consume ==
    /\ pc = "returned"
    /\ pc' = "idle"
    /\ apiRaised' = FALSE
    /\ live' = <<>>
    /\ batch' = [a \in AdapterIds |-> Returns(<<>>)]
    /\ result' = <<>>
    /\ UNCHANGED <<now, source>>
    /\ UNCHANGED validVars
    /\ UNCHANGED assistantVars
    /\ UNCHANGED criteriaVars

Next ==
    \/ \E a \in AdapterIds, r \in Responses : Answer(a, r)
    \/ \E a \in AdapterIds : RemoveKey(a)
    \/ \E t \in NowSet : Tick(t)
    \/ \E raised \in BOOLEAN : GetOngoingFestivals(raised)
    \/ Consume

Spec == Init /\ [][Next]_vars

----------------------------------------------------------------------------
(* _is_valid_festival on its own: SpecValid draws one event and one current
   date and applies the function *)

NameInputs ==
    {Missing, None, PyInt(12345), PyList(2), PyList(3),
     Str(""), Str("ab"), Str("abc"), Str("Jazz Festival")}

VenueInputs == {Missing, None, Str(""), Str("Club Soda")}

\* start minus current date, in hours
Deltas ==
    {0 - Days(31), 0 - Days(30) - 1, 0 - Days(30), 0,
     Days(90), Days(90) + 1, Days(91)}

\* for each local wall clock cur + d: the naive string, and three tz-aware
\* spellings of the same instant ('Z', the local offset, UTC+2)
StartInputs(cur) ==
    {NoDate("missing"), NoDate("none"), [NoDate("int") EXCEPT !.t = cur],
     EmptyStr, Garbage}
    \cup {Naive(cur + d) : d \in Deltas}
    \cup {Zulu(cur + d - MontrealUtcOffset) : d \in Deltas}
    \cup {Offset(cur + d, MontrealUtcOffset) : d \in Deltas}
    \cup {Offset(cur + d + 2 - MontrealUtcOffset, 2) : d \in Deltas}

InitValid ==
    /\ InitPipeline
    /\ current_date \in NowSet
    /\ festival \in {Event(n, v, st, "Quebec Open Data") :
                        n \in NameInputs, v \in VenueInputs,
                        st \in StartInputs(current_date)}
    /\ verdict = "pending"
    /\ CriteriaIdle
    /\ AssistantIdle

\* one call of _is_valid_festival(festival, current_date)
IsValidFestival ==
    /\ verdict = "pending"
    /\ verdict' = IF _is_valid_festival(festival, current_date) THEN "True" ELSE "False"
    /\ UNCHANGED <<festival, current_date>>
    /\ UNCHANGED pipeVars
    /\ UNCHANGED criteriaVars
    /\ UNCHANGED assistantVars

NextValid == IsValidFestival

SpecValid == InitValid /\ [][NextValid]_vars

Judged == verdict # "pending"
Accepted == verdict = "True"

NameIsText == festival.name.ty = "str" /\ Len(festival.name.s) >= 3

StartParses ==
    /\ festival.start_date.ty = "str"
    /\ festival.start_date.form \in {"naive", "zulu", "offset"}

StartIsAware ==
    /\ festival.start_date.ty = "str"
    /\ festival.start_date.form \in {"zulu", "offset"}

\* the instant the start denotes lies in [current_date - 30 days, current_date + 90 days]
StartInWindow ==
    LET clock == LocalClock(fromisoformat(festival.start_date))
    IN  current_date - Days(30) <= clock /\ clock <= current_date + Days(90)

\* C3: for an event with a name, a venue and a parseable start, the filter
\* answers True exactly when now - 30 days <= start <= now + 90 days, both ends
\* included.
C3_ValidIffInWindow ==
    (Judged /\ NameIsText /\ HasKey(festival, "venue") /\ StartParses) =>
        (Accepted <=> StartInWindow)

Malformed ==
    \/ festival.name.ty # "str"
    \/ Len(festival.name.s) < 3
    \/ festival.start_date.ty \in {"none", "int"}
    \/ festival.start_date.form \in {"empty", "garbage"}

NonEmptyText(v) == v.ty = "str" /\ Len(v.s) > 0

\* C5: every event the filter lets through has name, venue and start present and
\* non-empty; an event whose venue is the empty string does not pass.
C5_AcceptedFieldsNonEmpty ==
    Accepted =>
        /\ festival.name.ty # "missing" /\ PyLen(festival.name) > 0
        /\ NonEmptyText(festival.venue)
        /\ festival.start_date.ty = "str" /\ festival.start_date.form # "empty"

\* C5 as amended: every event the filter lets through has the keys name, venue
\* and start_date, a name of length 3 or more and a start_date that is a
\* non-empty ISO timestamp; the venue only has to be present and may be empty.
C5_AcceptedFieldsPresent ==
    Accepted =>
        /\ \A i \in 1..Len(required_fields) : festival[required_fields[i]].ty # "missing"
        /\ festival.name.ty \in {"str", "list"} /\ PyLen(festival.name) >= 3
        /\ StartParses

C5_Witness ==
    /\ Accepted
    /\ festival.venue = Str("")
    /\ festival.name = Str("abc")

\* C6: an event whose start is a timezone-aware timestamp ('Z' suffix or UTC
\* offset) inside [now - 30 days, now + 90 days] is accepted, like the naive
\* timestamp of the same instant.
C6_AwareStartAccepted ==
    (Judged /\ NameIsText /\ NonEmptyText(festival.venue) /\ StartIsAware
        /\ StartInWindow) => Accepted

----------------------------------------------------------------------------
(* Properties of the aggregation pipeline, checked under Spec *)

Returned == pc = "returned"

\* the concatenation of what the six adapters returned, in calling order
Collected ==
    batch[1].events \o batch[2].events \o batch[3].events
        \o batch[4].events \o batch[5].events \o batch[6].events

ValidNow(e) == _is_valid_festival(e, now)

\* source a gave nothing because it failed: no credential, the fetch raised, a
\* status other than 200, or a payload of the wrong shape
Fails(a) == source[a].response.kind # "ok"

\* C1: get_ongoing_festivals returns a non-empty list whatever each adapter does
\* (events, an empty list, a failure) and whatever the current time is.
C1_NeverEmpty == Returned => Len(result) > 0

C1_Witness ==
    /\ Returned
    /\ ~ apiRaised
    /\ \E a \in AdapterIds : source[a].response.kind = "raises"
    /\ \E a \in AdapterIds : source[a].response = Ok("empty")
    /\ \E a \in AdapterIds : Len(batch[a].events) > 0
    /\ Len(live) = 0
    /\ Len(result) > 0

\* C2: when the aggregation call raises, or no adapter contributes a valid event,
\* get_ongoing_festivals returns the five hardcoded seed events in their declared
\* order, unchanged, even at a time when the validity filter would reject them.
SeedNames ==
    <<"Montreal Jazz Festival", "Osheaga Music Festival",
      "Just for Laughs Comedy Festival", "Montreal International Film Festival",
      "Montreal Food Festival">>

SeedStarts ==
    <<Date2024(6, 27, 18), Date2024(8, 2, 12), Date2024(7, 10, 19),
      Date2024(8, 22, 10), Date2024(7, 15, 11)>>

SeedVenues ==
    <<"Quartier des Spectacles", "Parc Jean-Drapeau", "Quartier Latin",
      "Various Cinemas", "Old Port of Montreal">>

IsSeedList(list) ==
    /\ Len(list) = Len(SeedNames)
    /\ \A i \in 1..Len(SeedNames) :
          list[i] = Event(Str(SeedNames[i]), Str(SeedVenues[i]),
                          Naive(SeedStarts[i]), "Fallback Data")

NoValidContribution ==
    \A a \in AdapterIds : \A i \in 1..Len(batch[a].events) : ~ ValidNow(batch[a].events[i])

C2_FallbackIsSeedList ==
    (Returned /\ (apiRaised \/ NoValidContribution)) => IsSeedList(result)

C2_Witness ==
    /\ Returned
    /\ ~ apiRaised
    /\ \A a \in AdapterIds : Fails(a) \/ RecordsOf(source[a].response) # <<>>
    /\ \E a \in AdapterIds : Len(batch[a].events) > 0
    /\ NoValidContribution
    /\ IsSeedList(result)
    /\ \A i \in 1..Len(result) : ~ ValidNow(result[i])

\* C7: get_live_festivals returns the first min(50, k) of the k valid events, in
\* the order they have in the concatenated adapter output: the filter neither
\* reorders nor adds, and the list is cut after filtering.
C7_FirstValidInOrder ==
    (Returned /\ ~ apiRaised) =>
        LET valid == SelectSeq(Collected, ValidNow)
            n == IF Len(valid) < MaxFestivals THEN Len(valid) ELSE MaxFestivals
        IN  /\ Len(live) = n
            /\ \A i \in 1..n : live[i] = valid[i]

C7_Witness ==
    /\ Returned
    /\ ~ apiRaised
    /\ Len(SelectSeq(Collected, ValidNow)) > MaxFestivals
    /\ \E i \in 1..MaxFestivals : ~ ValidNow(Collected[i])
    /\ Len(live) = MaxFestivals
    /\ live[MaxFestivals] # Collected[MaxFestivals]

\* the world in which every failing source answers 200 with an empty list instead
Healed ==
    [a \in AdapterIds |->
        IF (NeedsKey(a) /\ ~ source[a].key) \/ Fails(a)
        THEN [key |-> TRUE, response |-> Ok("empty")]
        ELSE source[a]]

\* C8: a source that fails entirely (no credential, fetch raises, status other
\* than 200, payload of the wrong shape) contributes no event and raises nothing,
\* and get_live_festivals returns what it would return had each failing source
\* answered with an empty list.
C8_FailureIsolated ==
    (Returned /\ ~ apiRaised) =>
        /\ \A a \in AdapterIds : Fails(a) => batch[a] = Returns(<<>>)
        /\ \A a \in AdapterIds : ~ batch[a].raised
        /\ live = get_live_festivals(Healed, now)

C8_Witness ==
    /\ Returned
    /\ ~ apiRaised
    /\ \E a \in AdapterIds : NeedsKey(a) /\ ~ source[a].key
    /\ \E a \in AdapterIds : source[a].response.kind = "raises"
    /\ \E a \in AdapterIds : source[a].response.kind = "non200"
    /\ \E a \in AdapterIds : source[a].response.kind = "badshape"
    /\ \E a \in AdapterIds : \E b \in AdapterIds :
          /\ a < b
          /\ Fails(a)
          /\ \E i \in 1..Len(live) : live[i].source = Adapters[b]

\* the records of a's payload whose conversion does not raise, in payload order
Convertible(a) ==
    LET Converts(r) == ~ RecordRaises(a, r)
    IN  SelectSeq(RecordsOf(source[a].response), Converts)

\* C9: within one payload a record whose conversion raises is skipped, and every
\* other record, before and after it, is emitted in payload order.
C9_BadRecordSkipped ==
    Returned =>
        \A a \in AdapterIds :
            (~ Fails(a) /\ ~ apiRaised) =>
                /\ Len(batch[a].events) = Len(Convertible(a))
                /\ \A i \in 1..Len(Convertible(a)) :
                      batch[a].events[i] = ToEvent(a, Convertible(a)[i], now)

C9_Witness ==
    /\ Returned
    /\ ~ apiRaised
    /\ \E a \in AdapterIds :
          LET recs == RecordsOf(source[a].response)
          IN  /\ ~ Fails(a)
              /\ \E i, j, k \in 1..Len(recs) :
                    /\ i < j /\ j < k
                    /\ ~ RecordRaises(a, recs[i])
                    /\ RecordRaises(a, recs[j])
                    /\ ~ RecordRaises(a, recs[k])
              /\ Len(batch[a].events) = Len(recs) - 1
              /\ batch[a].events[Len(recs) - 1] = ToEvent(a, recs[Len(recs)], now)

AdapterIndex(tag) == CHOOSE a \in AdapterIds : Adapters[a] = tag

\* C10: the outputs are concatenated in the order Ticketmaster, Eventbrite,
\* Meetup, Facebook, Google Places, Quebec Open Data, and nothing is
\* deduplicated: in the returned list the events of an earlier source precede
\* those of a later one, each event carries the tag of the source that produced
\* it, and unless the list was cut every valid event of every source is in it,
\* also when another source delivered an event of the same name.
C10_SourceOrderNoDedup ==
    (Returned /\ ~ apiRaised) =>
        /\ Adapters = <<"Ticketmaster", "Eventbrite", "Meetup", "Facebook",
                        "Google Places", "Quebec Open Data">>
        /\ \A i \in 1..(Len(live) - 1) :
              AdapterIndex(live[i].source) <= AdapterIndex(live[i + 1].source)
        /\ Len(live) < MaxFestivals =>
              \A a \in AdapterIds :
                  LET FromA(e) == e.source = Adapters[a]
                  IN  SelectSeq(live, FromA) = SelectSeq(batch[a].events, ValidNow)

C10_Witness ==
    /\ Returned
    /\ ~ apiRaised
    /\ \E i, j \in 1..Len(live) :
          /\ i < j
          /\ live[i].name = live[j].name
          /\ live[i].source = "Eventbrite"
          /\ live[j].source = "Quebec Open Data"

----------------------------------------------------------------------------
(* _categorize_event on its own: SpecCategorize draws one event name and
   applies the function *)

\* at most this many words in an event name or in a user request
MaxWords == 2

\* the texts made of at most MaxWords words of a pool, joined by single blanks
Phrases(pool) ==
    {Join(ws) : ws \in UNION {[1..n -> pool] : n \in 0..MaxWords}}

\* the pipeline and the validity filter are at rest: only the clock matters to
\* the parser and the matcher
PipelineIdle ==
    /\ source = [a \in AdapterIds |-> Unconfigured(a)]
    /\ pc = "idle"
    /\ apiRaised = FALSE
    /\ live = <<>>
    /\ batch = [a \in AdapterIds |-> Returns(<<>>)]
    /\ result = <<>>
    /\ festival = Event(Missing, Missing, NoDate("missing"), "")
    /\ current_date = T0
    /\ verdict = "pending"

InitCategorize ==
    LET NameWords ==
            { <<"J", "a", "z", "z">>, <<"G", "a", "l", "l", "e", "r", "y">>,
               <<"F", "i", "l", "m">>, <<"w", "i", "n", "e">>, <<"p", "a", "r", "t", "y">>,
               <<"S", "t", "a", "n", "d", "u", "p">>, <<"b", "a", "l", "l", "e", "t">>,
               <<"P", "o", "u", "t", "i", "n", "e">>, <<"F", "e", "s", "t", "i", "v", "a", "l">>,
               <<"d", "e">>, <<"T", "H", "E", "A", "T", "R", "E">>,
               <<"l", "a", "u", "g", "h", "s">> }
    IN
    /\ now = T0
    /\ PipelineIdle
    /\ AssistantIdle
    /\ step = "name"
    /\ event_name \in Phrases(NameWords)
    /\ category = "pending"
    /\ user_input = <<>>
    /\ criteria = Criteria(NoText, NoText, NoText)
    /\ target_datetime = Datetime(FALSE, 0, 0, 0)
    /\ candidate = Festival(<<>>, <<>>, NoDate("missing"), NoDate("missing"))
    /\ at_time = "pending"
    /\ facade = <<>>
    /\ matching = <<>>

CategorizeEvent ==
    /\ step = "name"
    /\ step' = "categorized"
    /\ category' = _categorize_event(event_name)
    /\ UNCHANGED <<event_name, user_input, criteria, target_datetime, candidate,
                   at_time, facade, matching>>
    /\ UNCHANGED pipeVars
    /\ UNCHANGED validVars
    /\ UNCHANGED assistantVars

SpecCategorize == InitCategorize /\ [][CategorizeEvent]_vars

CategoryOrder == <<"music", "film", "food", "art", "comedy", "dance">>

KeywordsOf(cat) == event_keywords[cat]

\* the positions in CategoryOrder of the categories one of whose keywords occurs
\* in the text, case-insensitively
Occurring(s) ==
    {i \in 1..Len(CategoryOrder) : AnyIn(KeywordsOf(CategoryOrder[i]), lower(s))}

Jazz == <<"j", "a", "z", "z">>
Gallery == <<"g", "a", "l", "l", "e", "r", "y">>

\* C11: _categorize_event returns the first category, in the order music, film,
\* food, art, comedy, dance, one of whose keywords occurs in the text as a
\* case-insensitive substring, and other when none occurs; a text that contains
\* both "jazz" and "gallery" is music
C11_FirstCategoryInOrder ==
    step = "categorized" =>
        /\ Occurring(event_name) = {} => category = "other"
        /\ Occurring(event_name) # {} =>
              category = CategoryOrder[First(Occurring(event_name))]
        /\ (Contains(Jazz, lower(event_name)) /\ Contains(Gallery, lower(event_name)))
              => category = "music"

\* a name with "Jazz" and "Gallery" in it was categorized as music
C11_Witness ==
    /\ step = "categorized"
    /\ Contains(Jazz, lower(event_name))
    /\ Contains(Gallery, lower(event_name))
    /\ event_name # lower(event_name)
    /\ category = "music"

----------------------------------------------------------------------------
(* The criteria parser followed by the temporal matcher, as process_user_input
   runs them: SpecParse draws one request and one clock value *)

InitParse ==
    LET RequestWords ==
            { <<"m", "u", "s", "i", "c">>, <<"J", "a", "z", "z">>, <<"f", "i", "l", "m">>,
               <<"g", "a", "l", "l", "e", "r", "y">>, <<"w", "i", "n", "e", "s">>,
               <<"f", "i", "l", "m", "s">>, <<"f", "o", "o", "d", "s">>,
               <<"t", "o", "n", "i", "g", "h", "t">>, <<"t", "o", "m", "o", "r", "r", "o", "w">>,
               <<"m", "o", "r", "n", "i", "n", "g">>,
               <<"a", "f", "t", "e", "r", "n", "o", "o", "n">>, <<"1", "0", ":", "3", "0">> }
        \* every hour of Saturday 2024-07-20, and noon of the next day
        ParserClocks == {Date2024(7, 20, h) : h \in 0..23} \cup {Date2024(7, 21, 12)}
    IN
    /\ now \in ParserClocks
    /\ PipelineIdle
    /\ AssistantIdle
    /\ step = "input"
    /\ user_input \in Phrases(RequestWords)
    /\ event_name = <<>>
    /\ category = "pending"
    /\ criteria = Criteria(NoText, NoText, NoText)
    /\ target_datetime = Datetime(FALSE, 0, 0, 0)
    /\ candidate = Festival(<<>>, <<>>, NoDate("missing"), NoDate("missing"))
    /\ at_time = "pending"
    /\ facade = <<>>
    /\ matching = <<>>

\* category, day, time = self._parse_user_input(user_input)
ParseUserInput ==
    /\ step = "input"
    /\ step' = "parsed"
    /\ criteria' = _parse_user_input(user_input, now)
    /\ UNCHANGED <<event_name, category, user_input, target_datetime, candidate,
                   at_time, facade, matching>>
    /\ UNCHANGED pipeVars
    /\ UNCHANGED validVars
    /\ UNCHANGED assistantVars

\* target_datetime = self._parse_datetime(day, time)
ParseDatetime ==
    /\ step = "parsed"
    /\ step' = "resolved"
    /\ target_datetime' = _parse_datetime(criteria.day, criteria.time, now)
    /\ UNCHANGED <<event_name, category, user_input, criteria, candidate, at_time,
                   facade, matching>>
    /\ UNCHANGED pipeVars
    /\ UNCHANGED validVars
    /\ UNCHANGED assistantVars

SpecParse == InitParse /\ [][ParseUserInput \/ ParseDatetime]_vars

\* the criteria of the request have been returned
Parsed == step \in {"parsed", "resolved"}

Tokens == split(lower(user_input))

\* the positions of the tokens that equal a keyword of the table
KeywordTokens(table) == {k \in 1..Len(Tokens) : Entries(Tokens[k], table) # {}}

KeyOfToken(k, table) == table[First(Entries(Tokens[k], table))].key

\* C12: the category is that of the first token, left to right, that equals a
\* keyword of the category table, whatever tokens follow it; with no such token
\* and no substring match the category is music
C12_FirstKeywordTokenDecides ==
    Parsed =>
        /\ KeywordTokens(category_keywords) # {} =>
              criteria.category =
                  Text(KeyOfToken(First(KeywordTokens(category_keywords)), category_keywords))
        /\ (KeywordTokens(category_keywords) = {} /\ ~ Inferred(lower(user_input)).found)
              => criteria.category = Text(Lit.music)

\* a request with two keyword tokens of different categories took the category
\* of the first one
C12_Witness ==
    /\ Parsed
    /\ \E j, k \in KeywordTokens(category_keywords) :
          /\ j < k
          /\ KeyOfToken(j, category_keywords) # KeyOfToken(k, category_keywords)
          /\ KeyOfToken(j, category_keywords) # Lit.music
          /\ criteria.category = Text(KeyOfToken(j, category_keywords))

\* the entries of the category table one of whose keywords occurs in the request
SubstringEntries ==
    {i \in 1..Len(category_keywords) :
        AnyIn(category_keywords[i].keywords, lower(user_input))}

\* C13: with no keyword token, the substring fallback scans the category table
\* in its order: any keyword of the table that occurs in the request is
\* recognised, and the earliest declared category that has one wins
C13_FallbackScansSameTable ==
    (Parsed /\ KeywordTokens(category_keywords) = {} /\ SubstringEntries # {}) =>
        criteria.category = Text(category_keywords[First(SubstringEntries)].key)

MusicTonight == <<"m", "u", "s", "i", "c", " ", "t", "o", "n", "i", "g", "h", "t">>

\* C14 as stated: "music tonight" is parsed to (music, today, evening) at every hour
C14_TonightIsTodayEvening ==
    (Parsed /\ user_input = MusicTonight) =>
        criteria = Criteria(Text(Lit.music), Text(Lit.today), Text(Lit.evening))

\* C14: "music tonight" is parsed to category music and day tonight, and to the
\* time of day the current hour falls in: morning from 6 to 11, afternoon from 12
\* to 16, evening from 17 to 21, night otherwise
C14_TonightKeptTimeByHour ==
    (Parsed /\ user_input = MusicTonight) =>
        /\ criteria.category = Text(Lit.music)
        /\ criteria.day = Text(Lit.tonight)
        /\ HourOf(now) \in 6..11 => criteria.time = Text(Lit.morning)
        /\ HourOf(now) \in 12..16 => criteria.time = Text(Lit.afternoon)
        /\ HourOf(now) \in 17..21 => criteria.time = Text(Lit.evening)
        /\ HourOf(now) \in (0..5) \cup {22, 23} => criteria.time = Text(Lit.night)

\* "music tonight" was parsed at nine in the morning
C14_Witness ==
    /\ Parsed
    /\ user_input = MusicTonight
    /\ HourOf(now) = 9
    /\ criteria = Criteria(Text(Lit.music), Text(Lit.tonight), Text(Lit.morning))

\* the first token of the request that is a day keyword is "tonight"
FirstDayTokenIsTonight ==
    /\ KeywordTokens(day_keywords) # {}
    /\ Tokens[First(KeywordTokens(day_keywords))] = Lit.tonight

\* C15: a request whose first day token is "tonight" resolves to today's date at
\* 19:00 local time, at every current hour and with any time token beside it
C15_TonightResolvesTo19 ==
    (step = "resolved" /\ FirstDayTokenIsTonight) =>
        target_datetime = Datetime(TRUE, Days(DateOf(now)) + 19, MontrealUtcOffset, 0)

\* "tonight" came with a time token that says otherwise, late in the evening
C15_Witness ==
    /\ step = "resolved"
    /\ FirstDayTokenIsTonight
    /\ KeywordTokens(time_keywords) # {}
    /\ criteria.time = Text(Lit.morning)
    /\ HourOf(now) = 23
    /\ target_datetime = Datetime(TRUE, Days(DateOf(now)) + 19, MontrealUtcOffset, 0)

----------------------------------------------------------------------------
(* _parse_datetime on its own: SpecDatetime draws the day text, the time text
   and the clock, and applies the function *)

InitDatetime ==
    LET \* recognised day tokens in several spellings
        DayTokens ==
            { Text(<<"t", "o", "d", "a", "y">>), Text(<<"N", "o", "w">>),
              Text(<<"T", "O", "M", "O", "R", "R", "O", "W">>),
              Text(<<"t", "o", "n", "i", "g", "h", "t">>),
              Text(<<"T", "o", "n", "i", "g", "h", "t">>), Text(<<"m", "o", "n", "d", "a", "y">>),
              Text(<<"M", "o", "n">>), Text(<<"t", "u", "e", "s", "d", "a", "y">>),
              Text(<<"t", "u", "e">>), Text(<<"W", "e", "d", "n", "e", "s", "d", "a", "y">>),
              Text(<<"w", "e", "d">>), Text(<<"t", "h", "u", "r", "s", "d", "a", "y">>),
              Text(<<"T", "H", "U">>), Text(<<"F", "r", "i", "d", "a", "y">>),
              Text(<<"f", "r", "i">>), Text(<<"s", "a", "t", "u", "r", "d", "a", "y">>),
              Text(<<"S", "a", "t">>), Text(<<"S", "U", "N", "D", "A", "Y">>),
              Text(<<"s", "u", "n">>) }
        \* texts that are no day token: dates strptime accepts, dates it rejects, other text
        DateTexts ==
            { Text(<<"2", "0", "2", "4", "-", "0", "7", "-", "2", "5">>),
              Text(<<"2", "0", "2", "4", "-", "7", "-", "5">>),
              Text(<<"2", "0", "2", "4", "-", "0", "2", "-", "2", "9">>),
              Text(<<"2", "0", "2", "5", "-", "0", "3", "-", "0", "1">>),
              Text(<<"2", "0", "2", "4", "-", "0", "2", "-", "3", "0">>),
              Text(<<"2", "0", "2", "5", "-", "0", "2", "-", "2", "9">>),
              Text(<<"2", "0", "2", "4", "-", "1", "3", "-", "0", "1">>),
              Text(<<"2", "4", "-", "0", "7", "-", "2", "5">>),
              Text(<<"2", "0", "2", "4", "-", "0", "7", "-", "2", "5", "T", "1", "0", ":", "0", "0">>),
              Text(<<"s", "o", "m", "e", "d", "a", "y">>), Text(<<>>) }
        DayInputs == DayTokens \cup DateTexts \cup {NoText}
        TimeInputs ==
            { Text(<<"m", "o", "r", "n", "i", "n", "g">>), Text(<<"A", "M">>),
              Text(<<"a", "f", "t", "e", "r", "n", "o", "o", "n">>), Text(<<"p", "m">>),
              Text(<<"E", "v", "e", "n", "i", "n", "g">>), Text(<<"n", "i", "g", "h", "t">>),
              Text(<<"1", "0", ":", "3", "0">>), Text(<<"9", ":", "5">>),
              Text(<<"2", "3", ":", "5", "9">>), Text(<<"2", "4", ":", "0", "0">>),
              Text(<<"1", "0", ":", "6", "0">>), Text(<<"n", "o", "o", "n">>), Text(<<>>) } \cup {NoText}
        \* midnight, noon and 23:00 of the seven days from Saturday 2024-07-20
        DatetimeClocks == {Date2024(7, 20, h) + Days(d) : h \in {0, 12, 23}, d \in 0..6}
    IN
    /\ now \in DatetimeClocks
    /\ PipelineIdle
    /\ AssistantIdle
    /\ step = "parsed"
    /\ criteria \in {Criteria(Text(Lit.music), d, tm) : d \in DayInputs, tm \in TimeInputs}
    /\ user_input = <<>>
    /\ event_name = <<>>
    /\ category = "pending"
    /\ target_datetime = Datetime(FALSE, 0, 0, 0)
    /\ candidate = Festival(<<>>, <<>>, NoDate("missing"), NoDate("missing"))
    /\ at_time = "pending"
    /\ facade = <<>>
    /\ matching = <<>>

SpecDatetime == InitDatetime /\ [][ParseDatetime]_vars

\* _parse_datetime has returned, and both its arguments were str
ResolvedText == step = "resolved" /\ criteria.day.ty = "str" /\ criteria.time.ty = "str"

\* the date and the minutes past midnight the returned datetime spells
TargetDay == target_datetime.t \div 24
TargetMinutes == 60 * (target_datetime.t % 24) + target_datetime.minute

\* the weekdays (0 is Monday) the day text names, case-insensitively
NamedWeekdays ==
    {k \in 0..6 : IsIn(lower(criteria.day.cs), weekday_names[k + 1])}

\* C16: a weekday name resolves to the first date strictly after the current
\* date that falls on that weekday: between one and seven days ahead, and seven
\* days ahead when today is that weekday
C16_NextWeekdayStrictlyAfter ==
    ResolvedText =>
        \A k \in NamedWeekdays :
            /\ TargetDay \in (DateOf(now) + 1)..(DateOf(now) + 7)
            /\ TargetDay % 7 = k
            /\ \A d \in (DateOf(now) + 1)..(TargetDay - 1) : d % 7 # k
            /\ DateOf(now) % 7 = k => TargetDay = DateOf(now) + 7

\* on a Saturday, "saturday" resolved to the Saturday of the next week
C16_Witness ==
    /\ ResolvedText
    /\ NamedWeekdays = {5}
    /\ DateOf(now) % 7 = 5
    /\ TargetDay = DateOf(now) + 7

\* is the day text one of the tokens the elif chain recognises
RecognisedDay ==
    \/ lower(criteria.day.cs) \in {Lit.today, Lit.now, Lit.tomorrow, Lit.tonight}
    \/ NamedWeekdays # {}

\* the texts among the inputs that spell a calendar date, with the date they spell
WrittenDates ==
    { <<<<"2", "0", "2", "4", "-", "0", "7", "-", "2", "5">>, Date2024(7, 25, 0) \div 24>>,
      <<<<"2", "0", "2", "4", "-", "7", "-", "5">>, Date2024(7, 5, 0) \div 24>>,
      <<<<"2", "0", "2", "4", "-", "0", "2", "-", "2", "9">>, Date2024(2, 29, 0) \div 24>>,
      <<<<"2", "0", "2", "5", "-", "0", "3", "-", "0", "1">>, 366 + 31 + 28>> }

WrittenDateSample == <<"2", "0", "2", "4", "-", "7", "-", "5">>
ImpossibleDateSample == <<"2", "0", "2", "4", "-", "0", "2", "-", "3", "0">>

WrittenTimes ==
    { <<<<"1", "0", ":", "3", "0">>, 60 * 10 + 30>>,
      <<<<"9", ":", "5">>, 60 * 9 + 5>>,
      <<<<"2", "3", ":", "5", "9">>, 60 * 23 + 59>> }

\* the time text is none of the period names, and is read as HH:MM or as the
\* current time of day
ReadAsClockTime ==
    /\ \A p \in WrittenTimes : criteria.time.cs = p[1] => TargetMinutes = p[2]
    /\ (\A p \in WrittenTimes : criteria.time.cs # p[1]) => TargetMinutes = 60 * (now % 24)

\* C18 as stated: morning is 09:00, afternoon 14:00, evening 19:00, and every
\* other time text is read as HH:MM or resolves to the current time of day
C18_ThreePeriodsElseClockTime ==
    ResolvedText =>
        LET tm == lower(criteria.time.cs) IN
        /\ tm = Lit.morning => TargetMinutes = 60 * 9
        /\ tm = Lit.afternoon => TargetMinutes = 60 * 14
        /\ tm = Lit.evening => TargetMinutes = 60 * 19
        /\ tm \notin {Lit.morning, Lit.afternoon, Lit.evening} => ReadAsClockTime

\* C18: unless the day is "tonight", which always resolves to 19:00, morning and
\* am are 09:00, afternoon and pm 14:00, evening and night 19:00, and every other
\* time text is read as HH:MM or resolves to the current time of day
C18_PeriodsAliasesTonight ==
    ResolvedText =>
        LET tm == lower(criteria.time.cs) IN
        IF lower(criteria.day.cs) = Lit.tonight THEN TargetMinutes = 60 * 19
        ELSE /\ tm \in {Lit.morning, Lit.am} => TargetMinutes = 60 * 9
             /\ tm \in {Lit.afternoon, Lit.pm} => TargetMinutes = 60 * 14
             /\ tm \in {Lit.evening, Lit.night} => TargetMinutes = 60 * 19
             /\ tm \notin {Lit.morning, Lit.am, Lit.afternoon, Lit.pm, Lit.evening, Lit.night}
                  => ReadAsClockTime

\* at noon, "night" resolved to 19:00 on a day other than tonight
C18_Witness ==
    /\ ResolvedText
    /\ lower(criteria.time.cs) = Lit.night
    /\ lower(criteria.day.cs) = Lit.tomorrow
    /\ now % 24 = 12
    /\ TargetMinutes = 60 * 19

----------------------------------------------------------------------------
(* _is_festival_at_time on its own: SpecAtTime draws the start and end texts of
   one festival and the target datetime, and applies the function *)

\* start and end of the Montreal Jazz Festival seed
JazzStart == Date2024(6, 27, 18)
JazzEnd == Date2024(7, 6, 23)

InitAtTime ==
    LET \* spellings of one local wall clock t that parse, and values that do not
        DateSpellings(t) ==
            {Naive(t), Zulu(t - MontrealUtcOffset), Offset(t + 2 - MontrealUtcOffset, 2),
             DateOnly(Days(DateOf(t)))}
        Unparseable ==
            {NoDate("missing"), NoDate("none"), [NoDate("int") EXCEPT !.t = JazzStart],
             EmptyStr, Garbage}
        \* target datetimes around the start and the end: aware Montreal times, a naive
        \* one, and one that carries the UTC offset
        Targets ==
            {Datetime(TRUE, t, MontrealUtcOffset, m) :
                t \in {Days(DateOf(JazzStart)) - 1, Days(DateOf(JazzStart)), JazzStart - 1,
                       JazzStart, Date2024(6, 30, 20), Days(DateOf(JazzEnd)), JazzEnd},
                m \in {0, 30}}
            \cup {Datetime(FALSE, JazzEnd, 0, 0), Datetime(FALSE, JazzEnd + 1, 0, 0),
                  Datetime(TRUE, JazzStart - MontrealUtcOffset, 0, 0),
                  Datetime(TRUE, JazzStart - MontrealUtcOffset - 1, 0, 30)}
    IN
    /\ now = T0
    /\ PipelineIdle
    /\ AssistantIdle
    /\ step = "matching"
    /\ candidate \in {Festival(<<>>, <<>>, s, e) :
                         s \in DateSpellings(JazzStart) \cup Unparseable,
                         e \in DateSpellings(JazzEnd) \cup Unparseable}
    /\ target_datetime \in Targets
    /\ at_time = "pending"
    /\ user_input = <<>>
    /\ event_name = <<>>
    /\ category = "pending"
    /\ criteria = Criteria(NoText, NoText, NoText)
    /\ facade = <<>>
    /\ matching = <<>>

IsFestivalAtTime ==
    /\ step = "matching"
    /\ step' = "matched"
    /\ at_time' = IF _is_festival_at_time(candidate, target_datetime) THEN "True" ELSE "False"
    /\ UNCHANGED <<event_name, category, user_input, criteria, target_datetime,
                   candidate, facade, matching>>
    /\ UNCHANGED pipeVars
    /\ UNCHANGED validVars
    /\ UNCHANGED assistantVars

SpecAtTime == InitAtTime /\ [][IsFestivalAtTime]_vars

\* the text is a date-only string or a full timestamp
ParsesAsDate(d) == d.ty = "str" /\ d.form \in {"date", "naive", "zulu", "offset"}

\* minutes on the Montreal clock of the instant the text spells: a text without
\* an offset is Montreal time, 'Z' is UTC
MinutesOfText(d) ==
    60 * (CASE d.form = "zulu" -> d.t + MontrealUtcOffset
            [] d.form = "offset" -> d.t - d.off + MontrealUtcOffset
            [] OTHER -> d.t)

\* the same for the target; a naive target is Montreal time
MinutesOfTarget ==
    60 * (IF target_datetime.aware
          THEN target_datetime.t - target_datetime.off + MontrealUtcOffset
          ELSE target_datetime.t)
    + target_datetime.minute

\* C19: _is_festival_at_time is true exactly when start and end both parse and
\* start <= target <= end, both ends included; it is false (and does not raise)
\* when start or end is missing, empty or unparseable; the event from
\* 2024-06-27T18:00 to 2024-07-06T23:00 contains 2024-06-30T20:00 local
C19_AtTimeIffWithinInclusive ==
    step = "matched" =>
        /\ at_time \in {"True", "False"}
        /\ at_time = "True" <=>
              /\ ParsesAsDate(candidate.start_date)
              /\ ParsesAsDate(candidate.end_date)
              /\ MinutesOfText(candidate.start_date) <= MinutesOfTarget
              /\ MinutesOfTarget <= MinutesOfText(candidate.end_date)
        /\ ( /\ candidate.start_date = Naive(JazzStart)
             /\ candidate.end_date = Naive(JazzEnd)
             /\ target_datetime = Datetime(TRUE, Date2024(6, 30, 20), MontrealUtcOffset, 0) )
              => at_time = "True"

\* a target exactly at the end, the start given as a date only and the end with
\* a 'Z', was found inside the festival
C19_Witness ==
    /\ step = "matched"
    /\ candidate.start_date.form = "date"
    /\ candidate.end_date.form = "zulu"
    /\ MinutesOfTarget = 60 * JazzEnd
    /\ at_time = "True"

----------------------------------------------------------------------------
(* get_festivals_by_criteria on its own: SpecCriteria draws the criteria, the
   list the facade returns and the clock, and applies the function *)

\* the seed list of festival_service.py with the fields main.py reads
SeedFestivals ==
    <<
    Festival(<<"M", "o", "n", "t", "r", "e", "a", "l", " ", "J", "a", "z", "z", " ", "F", "e", "s", "t", "i", "v", "a", "l">>,
             <<"m", "u", "s", "i", "c">>,
             Naive(Date2024(6, 27, 18)), Naive(Date2024(7, 6, 23))),
    Festival(<<"O", "s", "h", "e", "a", "g", "a", " ", "M", "u", "s", "i", "c", " ", "F", "e", "s", "t", "i", "v", "a", "l">>,
             <<"m", "u", "s", "i", "c">>,
             Naive(Date2024(8, 2, 12)), Naive(Date2024(8, 4, 23))),
    Festival(<<"J", "u", "s", "t", " ", "f", "o", "r", " ", "L", "a", "u", "g", "h", "s", " ", "C", "o", "m", "e", "d", "y", " ", "F", "e", "s", "t", "i", "v", "a", "l">>,
             <<"c", "o", "m", "e", "d", "y">>,
             Naive(Date2024(7, 10, 19)), Naive(Date2024(7, 28, 23))),
    Festival(<<"M", "o", "n", "t", "r", "e", "a", "l", " ", "I", "n", "t", "e", "r", "n", "a", "t", "i", "o", "n", "a", "l", " ", "F", "i", "l", "m", " ", "F", "e", "s", "t", "i", "v", "a", "l">>,
             <<"f", "i", "l", "m">>,
             Naive(Date2024(8, 22, 10)), Naive(Date2024(9, 2, 23))),
    Festival(<<"M", "o", "n", "t", "r", "e", "a", "l", " ", "F", "o", "o", "d", " ", "F", "e", "s", "t", "i", "v", "a", "l">>,
             <<"f", "o", "o", "d">>,
             Naive(Date2024(7, 15, 11)), Naive(Date2024(7, 21, 22)))
    >>

InitCriteria ==
    LET \* a list as the live sources give it: the category is what _categorize_event
    \* makes of the name (Google Places sets 'other'), the end date is copied from
    \* the source as it is
        LiveFestivals ==
            <<
            Festival(<<"N", "u", "i", "t", "s", " ", "d", "'", "A", "f", "r", "i", "q", "u", "e", " ", "M", "U", "S", "I", "C">>,
                     <<"m", "u", "s", "i", "c">>,
                     Naive(T0 + 5), EmptyStr),
            Festival(<<"C", "i", "n", "e", "m", "a", " ", "s", "o", "u", "s", " ", "l", "e", "s", " ", "e", "t", "o", "i", "l", "e", "s">>,
                     <<"f", "i", "l", "m">>,
                     Naive(T0 - Days(3)), Garbage),
            Festival(<<"E", "v", "e", "n", "t", "s", " ", "a", "t", " ", "C", "l", "u", "b", " ", "S", "o", "d", "a">>,
                     <<"o", "t", "h", "e", "r">>,
                     Naive(T0), Naive(T0 + Days(30))),
            Festival(<<"M", "u", "s", "i", "c", "a", "l", " ", "B", "r", "u", "n", "c", "h">>,
                     <<"m", "u", "s", "i", "c">>,
                     Naive(T0 + Days(60)), Zulu(T0 + Days(61)))
            >>
        CategoryInputs ==
            { Text(<<"m", "u", "s", "i", "c">>), Text(<<"M", "U", "S", "I", "C">>),
              Text(<<"J", "a", "z", "z">>), Text(<<"f", "i", "l", "m">>),
              Text(<<"c", "i", "n", "e", "m", "a">>), Text(<<"o", "t", "h", "e", "r">>),
              Text(<<"o", "p", "e", "r", "a">>), Text(<<>>) }
        CriteriaDays ==
            { Text(<<"t", "o", "d", "a", "y">>), Text(<<"t", "o", "n", "i", "g", "h", "t">>),
              Text(<<"t", "o", "m", "o", "r", "r", "o", "w">>),
              Text(<<"f", "r", "i", "d", "a", "y">>),
              Text(<<"2", "0", "2", "4", "-", "0", "6", "-", "3", "0">>),
              Text(<<"2", "0", "3", "0", "-", "0", "1", "-", "0", "1">>), Text(<<"a", "n", "y">>),
              Text(<<"A", "l", "l">>), Text(<<>>) } \cup {NoText}
        CriteriaTimes ==
            { Text(<<"e", "v", "e", "n", "i", "n", "g">>),
              Text(<<"m", "o", "r", "n", "i", "n", "g">>), Text(<<"1", "0", ":", "3", "0">>),
              Text(<<"a", "n", "y">>), Text(<<>>),
              Text(<<"w", "h", "e", "n", "e", "v", "e", "r">>) } \cup {NoText}
    IN
    /\ now \in {T0, Date2024(6, 30, 20)}
    /\ PipelineIdle
    /\ AssistantIdle
    /\ step = "criteria"
    /\ criteria \in {Criteria(c, d, tm) :
                        c \in CategoryInputs, d \in CriteriaDays, tm \in CriteriaTimes}
    /\ facade \in {SeedFestivals, LiveFestivals, LiveFestivals \o SeedFestivals}
    /\ matching = <<>>
    /\ user_input = <<>>
    /\ event_name = <<>>
    /\ category = "pending"
    /\ target_datetime = Datetime(FALSE, 0, 0, 0)
    /\ candidate = Festival(<<>>, <<>>, NoDate("missing"), NoDate("missing"))
    /\ at_time = "pending"

GetFestivalsByCriteria ==
    /\ step = "criteria"
    /\ step' = "selected"
    /\ matching' = get_festivals_by_criteria(criteria.category, criteria.day,
                                             criteria.time, facade, now)
    /\ UNCHANGED <<event_name, category, user_input, criteria, target_datetime,
                   candidate, at_time, facade>>
    /\ UNCHANGED pipeVars
    /\ UNCHANGED validVars
    /\ UNCHANGED assistantVars

SpecCriteria == InitCriteria /\ [][GetFestivalsByCriteria]_vars

\* the call has returned, and day and time were str
SelectedText == step = "selected" /\ criteria.day.ty = "str" /\ criteria.time.ty = "str"

\* does the name or the category field contain the category text, whatever the case
HasCategoryText(f) ==
    \/ Contains(lower(criteria.category.cs), lower(f.name))
    \/ Contains(lower(criteria.category.cs), lower(f.category))

\* C20: get_festivals_by_criteria returns, in facade order, exactly the events
\* whose name or category field contains the category text case-insensitively;
\* the result is that list for every day and time, so no event is left out for
\* being outside the requested time window or for dates that do not parse
C20_CategoryAloneSelects ==
    SelectedText => matching = SelectSeq(facade, HasCategoryText)

\* a specific day and time were asked for, and the result holds an event that is
\* over at the target time and one whose end date does not parse
C20_Witness ==
    /\ SelectedText
    /\ lower(criteria.day.cs) \notin NoCriterion
    /\ Len(matching) >= 2
    /\ \E i \in 1..Len(matching) :
          /\ matching[i].end_date.form = "naive"
          /\ matching[i].end_date.t < now
    /\ \E i \in 1..Len(matching) : matching[i].end_date.form \in {"empty", "garbage"}

----------------------------------------------------------------------------
(* The seed list fed through the validity filter: SpecSeedFilter draws the
   current date and filters _get_fallback_festivals() with it *)

InitSeedFilter ==
    LET \* 09:00, 10:00, 18:00 and 19:00 of the days from 2024-05-20 to 2024-10-01
        SeedClocks == {Date2024(5, 20, h) + Days(k) : h \in {9, 10, 18, 19}, k \in 0..134}
    IN
    /\ now \in SeedClocks
    /\ PipelineIdle
    /\ AssistantIdle
    /\ step = "seeds"
    /\ event_name = <<>>
    /\ category = "pending"
    /\ user_input = <<>>
    /\ criteria = Criteria(NoText, NoText, NoText)
    /\ target_datetime = Datetime(FALSE, 0, 0, 0)
    /\ candidate = Festival(<<>>, <<>>, NoDate("missing"), NoDate("missing"))
    /\ at_time = "pending"
    /\ facade = <<>>
    /\ matching = <<>>

\* [f for f in _get_fallback_festivals() if _is_valid_festival(f, now)]
FilterSeeds ==
    /\ step = "seeds"
    /\ step' = "filtered"
    /\ result' = FilterValid(_get_fallback_festivals, now)
    /\ UNCHANGED <<now, source, pc, apiRaised, live, batch>>
    /\ UNCHANGED <<event_name, category, user_input, criteria, target_datetime,
                   candidate, at_time, facade, matching>>
    /\ UNCHANGED validVars
    /\ UNCHANGED assistantVars

SpecSeedFilter == InitSeedFilter /\ [][FilterSeeds]_vars

\* now lies in [start - before, start + after] of every seed event
NowInEveryWindow(before, after) ==
    \A i \in 1..Len(_get_fallback_festivals) :
        LET start == _get_fallback_festivals[i].start_date.t IN
        start - before <= now /\ now <= start + after

\* C23 as stated: with now inside every seed's [start - 30 days, start + 90 days]
\* the filter returns the seed list unchanged
C23_SeedsKeptInStartWindow ==
    (step = "filtered" /\ NowInEveryWindow(Days(30), Days(90))) =>
        result = _get_fallback_festivals

\* C23: with now inside every seed's [start - 90 days, start + 30 days], the
\* dates for which every start is within [now - 30 days, now + 90 days], the
\* filter returns the seed list unchanged: same events, same order
C23_SeedsKeptInNowWindow ==
    (step = "filtered" /\ NowInEveryWindow(Days(90), Days(30))) =>
        result = _get_fallback_festivals

\* the seeds were filtered thirty days after the earliest start, to the hour,
\* and all five came back
C23_Witness ==
    /\ step = "filtered"
    /\ NowInEveryWindow(Days(90), Days(30))
    /\ now = Date2024(6, 27, 18) + Days(30)
    /\ result = _get_fallback_festivals

----------------------------------------------------------------------------
(* "festival" in an event name *)

FestivalWord == <<"f", "e", "s", "t", "i", "v", "a", "l">>

\* the keywords of a category other than "festival"
OwnKeywords(cat) ==
    SelectSeq(event_keywords[cat], LAMBDA word : word # FestivalWord)

\* C27: a name that contains "festival" in any letter case is categorized as
\* music whatever else it contains, and a result of film, food, art, comedy or
\* dance is always decided by a keyword of that category other than "festival"
C27_FestivalIsMusic ==
    step = "categorized" =>
        /\ Contains(FestivalWord, lower(event_name)) => category = "music"
        /\ category \in {"film", "food", "art", "comedy", "dance"} =>
              /\ ~Contains(FestivalWord, lower(event_name))
              /\ AnyIn(OwnKeywords(category), lower(event_name))

\* "Film Festival" was categorized as music
C27_Witness ==
    /\ step = "categorized"
    /\ event_name = <<"F", "i", "l", "m", " ", "F", "e", "s", "t", "i", "v", "a", "l">>
    /\ category = "music"

----------------------------------------------------------------------------
(* The three outputs of _parse_user_input are resolved independently *)

\* the request without its tokens that are keywords of either table
Without(tableA, tableB) ==
    Join(SelectSeq(Tokens,
                   LAMBDA word : Entries(word, tableA) = {} /\ Entries(word, tableB) = {}))

\* C28: the category is the one returned for the request without its day and
\* time tokens, the day is the one returned for the request without its category
\* and time tokens, and the time is the one returned at the same current hour
\* for the request without its category and day tokens; so two requests that
\* differ only in the other two kinds of tokens get the same output
C28_OutputsIndependent ==
    Parsed =>
        /\ criteria.category =
              _parse_user_input(Without(day_keywords, time_keywords), now).category
        /\ criteria.day =
              _parse_user_input(Without(category_keywords, time_keywords), now).day
        /\ criteria.time =
              _parse_user_input(Without(category_keywords, day_keywords), now).time

\* "film tonight" was parsed in the morning: the time is the morning's, as for
\* the empty request, and the category is film, as for "film"
C28_Witness ==
    /\ Parsed
    /\ Tokens = << <<"f", "i", "l", "m">>, <<"t", "o", "n", "i", "g", "h", "t">> >>
    /\ HourOf(now) = 9
    /\ criteria = Criteria(Text(<<"f", "i", "l", "m">>), Text(Lit.tonight), Text(Lit.morning))

----------------------------------------------------------------------------
(* executor.execute_task, MemoryManager.store_conversation and
   MontrealFestivalAssistant.process_user_input *)

\* U+DC80, a lone surrogate: one character of a str, which str.encode() rejects
LoneSurrogate == "U+DC80"

\* content.encode() raises UnicodeEncodeError
EncodeRaises(cs) == \E i \in 1..Len(cs) : cs[i] = LoneSurrogate

\* the whole body of execute_task is in a try: whatever the generator raises
\* comes back as status error
execute_task(outcome) ==
    IF outcome = "answers" THEN [status |-> "success"] ELSE [status |-> "error"]

\* a dict of the facade with the fields the response is built from
Listing(f, venue, address, price, metro, src) ==
    f @@ [venue |-> venue, address |-> address, price |-> price, metro |-> metro,
          source |-> src]

\* a response text, by the fields of the event that are written into it
TextBlock(kind, status, name, f) ==
    [kind |-> kind, status |-> status, name |-> name, venue |-> f.venue,
     address |-> f.address, price |-> f.price, metro |-> f.metro, source |-> f.source]

Blank == [venue |-> "", address |-> "", price |-> "", metro |-> "", source |-> ""]

\* outcome: what the text generator does during this call
_generate_festival_response(f, outcome, cur) ==
    LET is_ongoing == _is_festival_at_time(f, CurrentTime(cur))
        task_result == execute_task(outcome)
    IN  IF task_result.status = "success"
        \* result['response']: the generator's text
        THEN TextBlock("generated", "", <<>>, Blank)
        ELSE TextBlock("template", IF is_ongoing THEN "ONGOING NOW" ELSE "UPCOMING",
                       f.name, f)

\* "\n\n".join(responses), or the apology of the except branch, would make
\* (user_input + agent_response).encode() raise
ResponseEncodeRaises(responses) ==
    \E i \in 1..Len(responses) : EncodeRaises(responses[i].name)

\* the record store_conversation appends
Conversation(input, agent_response, t) ==
    [timestamp |-> t, user_input |-> input, agent_response |-> agent_response,
     task_results |-> <<>>]

\* _generate_id raises before the append; _save_memory catches its own errors
store_conversation(mem, input, agent_response, t) ==
    IF EncodeRaises(input) \/ ResponseEncodeRaises(agent_response)
    THEN [raised |-> TRUE, memory |-> mem]
    ELSE [raised |-> FALSE, memory |-> Append(mem, Conversation(input, agent_response, t))]

\* what a call of process_user_input leaves: the dict it returns, or raised
Reply(outcome, kind, final_response, festivals_found) ==
    [outcome |-> outcome, kind |-> kind, final_response |-> final_response,
     festivals_found |-> festivals_found, has_error |-> kind = "error"]

Handled(c, m, mem, r) == [criteria |-> c, matching |-> m, memory |-> mem, reply |-> r]

\* festivals: what get_ongoing_festivals() returns; gen: what the text generator
\* does on each call; mem: the conversations stored so far
process_user_input(input, cur, festivals, gen, mem) ==
    LET c == _parse_user_input(input, cur)
        m == get_festivals_by_criteria(c.category, c.day, c.time, festivals, cur)
        responses == [i \in 1..Len(m) |-> _generate_festival_response(m[i], gen[i], cur)]
        none_found == <<TextBlock("none found", "", <<>>, Blank)>>
        apology == <<TextBlock("apology", "", <<>>, Blank)>>
        stored == store_conversation(mem, input, responses, cur)
        stored_again == store_conversation(mem, input, apology, cur)
    IN  \* if not matching_festivals: return, nothing is stored
        IF m = <<>> THEN Handled(c, m, mem, Reply("returned", "none found", none_found, 0))
        ELSE IF ~ stored.raised
        THEN Handled(c, m, stored.memory, Reply("returned", "festivals", responses, Len(m)))
        \* except Exception: store_conversation(user_input, error_response)
        ELSE IF ~ stored_again.raised
        THEN Handled(c, m, stored_again.memory, Reply("returned", "error", apology, 0))
        \* the second store_conversation raises inside the except block
        ELSE Handled(c, m, mem, Reply("raised", "UnicodeEncodeError", <<>>, 0))

\* the first three events of the seed list, as the facade returns them
SeedListings ==
    << Listing(SeedFestivals[1], "Quartier des Spectacles",
               "Quartier des Spectacles, Montreal, QC H2X 1X8", "$25-150 CAD",
               "Place-des-Arts", "Fallback Data"),
       Listing(SeedFestivals[2], "Parc Jean-Drapeau",
               "Parc Jean-Drapeau, Montreal, QC H3C 6A3", "$150-300 CAD",
               "Jean-Drapeau", "Fallback Data"),
       Listing(SeedFestivals[3], "Quartier Latin",
               "Quartier Latin, Montreal, QC H2L 2L4", "$30-100 CAD",
               "Berri-UQAM", "Fallback Data") >>

\* SpecAssistant draws one request, one clock value, one facade list, what the
\* generator does on each call and what the Memory Store holds
InitAssistant ==
    LET \* a name as json.loads gives it for "Jazz \udc80"
        Odd == Listing(Festival(<<"J", "a", "z", "z", " ", LoneSurrogate>>,
                                <<"m", "u", "s", "i", "c">>,
                                Naive(Date2024(6, 28, 10)), Naive(Date2024(6, 28, 23))),
                       "Club Soda", "Montreal", "Free", "Saint-Laurent", "Ticketmaster")
        RequestWords ==
            { <<"m", "u", "s", "i", "c">>, <<"c", "o", "m", "e", "d", "y">>, <<"d", "a", "n", "c", "e">>, <<"t", "o", "m", "o", "r", "r", "o", "w">>, <<"U+0645", "U+0648", "U+0632", "U+06CC", "U+06A9">>, <<"x", LoneSurrogate>>, <<"2", "5", ":", "9", "9">> }
        Earlier == Conversation(<<"m", "u", "s", "i", "c">>, <<TextBlock("generated", "", <<>>, Blank)>>,
                                Date2024(6, 1, 12))
    IN
    /\ now \in {Date2024(6, 28, 12), Date2024(7, 20, 9)}
    /\ PipelineIdle
    /\ step = "input"
    /\ user_input \in Phrases(RequestWords)
    /\ facade \in { SeedListings, <<Odd, SeedListings[3]>> }
    /\ generator \in [1..2 -> {"answers", "raises"}]
    /\ memory \in { <<>>, <<Earlier>> }
    /\ reply = Reply("pending", "", <<>>, 0)
    /\ event_name = <<>>
    /\ category = "pending"
    /\ criteria = Criteria(NoText, NoText, NoText)
    /\ target_datetime = Datetime(FALSE, 0, 0, 0)
    /\ candidate = Festival(<<>>, <<>>, NoDate("missing"), NoDate("missing"))
    /\ at_time = "pending"
    /\ matching = <<>>
    /\ selection = <<>>
    /\ web = <<>>
    /\ tasks = <<>>
    /\ dependencies_valid = "pending"

\* result = assistant.process_user_input(user_input)
ProcessUserInput ==
    /\ step = "input"
    /\ step' = "answered"
    /\ LET done == process_user_input(user_input, now, facade, generator, memory) IN
       /\ criteria' = done.criteria
       /\ matching' = done.matching
       /\ memory' = done.memory
       /\ reply' = done.reply
    /\ UNCHANGED <<event_name, category, user_input, target_datetime, candidate, at_time,
                   facade, selection, generator, web, tasks, dependencies_valid>>
    /\ UNCHANGED pipeVars
    /\ UNCHANGED validVars

SpecAssistant == InitAssistant /\ [][ProcessUserInput]_vars

\* the call under test has returned or raised
Answered == step = "answered"

\* the block the fallback branch of _generate_festival_response writes for the
\* event at the current time
Templated(f) ==
    TextBlock("template",
              IF _is_festival_at_time(f, CurrentTime(now)) THEN "ONGOING NOW" ELSE "UPCOMING",
              f.name, f)

\* C21 as stated: process_user_input returns one response text per matched
\* event, and the text of an event for which the Text Generator failed is the
\* templated block built from that event's fields
C21_TemplatePerMatchedEvent ==
    (Answered /\ matching # <<>>) =>
        /\ reply.outcome = "returned"
        /\ Len(reply.final_response) = Len(matching)
        /\ \A i \in 1..Len(matching) :
              generator[i] = "raises" => reply.final_response[i] = Templated(matching[i])

\* C22 as stated: a call of process_user_input that returns appends exactly one
\* record to the conversations and leaves the records before it as they were
C22_OneRecordPerCall ==
    [][(step = "input" /\ step' = "answered" /\ reply'.outcome = "returned") =>
           /\ Len(memory') = Len(memory) + 1
           /\ SubSeq(memory', 1, Len(memory)) = memory]_vars

\* C24 as stated: whatever the text of the request, process_user_input returns,
\* with criteria built from the defaults and with matched-festival texts or the
\* "No festivals found" message; an 'error' entry can only come from the events
C24_NeverRejects ==
    Answered =>
        /\ criteria.category.ty = "str" /\ criteria.day.ty = "str" /\ criteria.time.ty = "str"
        /\ reply.outcome = "returned"
        /\ (\A i \in 1..Len(facade) : ~ EncodeRaises(facade[i].name)) =>
              reply.kind \in {"festivals", "none found"}

----------------------------------------------------------------------------
(* Guided search: the menus of FestivalUI, the request main() builds from the
   choice, and its processing *)

\* the values of self.categories, self.days and self.times, in menu order
FestivalUI ==
    [ categories |->
          << <<"m", "u", "s", "i", "c">>,
             <<"f", "i", "l", "m">>,
             <<"f", "o", "o", "d">>,
             <<"a", "r", "t">>,
             <<"c", "o", "m", "e", "d", "y">> >>,
      days |->
          << <<"t", "o", "d", "a", "y">>,
             <<"t", "o", "m", "o", "r", "r", "o", "w">>,
             <<"m", "o", "n", "d", "a", "y">>,
             <<"t", "u", "e", "s", "d", "a", "y">>,
             <<"w", "e", "d", "n", "e", "s", "d", "a", "y">>,
             <<"t", "h", "u", "r", "s", "d", "a", "y">>,
             <<"f", "r", "i", "d", "a", "y">>,
             <<"s", "a", "t", "u", "r", "d", "a", "y">>,
             <<"s", "u", "n", "d", "a", "y">> >>,
      times |->
          << <<"m", "o", "r", "n", "i", "n", "g">>,
             <<"a", "f", "t", "e", "r", "n", "o", "o", "n">>,
             <<"e", "v", "e", "n", "i", "n", "g">>,
             <<"n", "i", "g", "h", "t">> >> ]

\* f"{category} {day} {time}"
search_input(category_chosen, day_chosen, time_chosen) ==
    category_chosen \o <<" ">> \o day_chosen \o <<" ">> \o time_chosen

InitGuided ==
    /\ now \in {Date2024(7, 20, h) : h \in 0..23}
    /\ PipelineIdle
    /\ step = "menu"
    /\ user_input = <<>>
    /\ facade = SeedListings
    /\ generator = <<"raises", "raises">>
    /\ memory = <<>>
    /\ reply = Reply("pending", "", <<>>, 0)
    /\ event_name = <<>>
    /\ category = "pending"
    /\ criteria = Criteria(NoText, NoText, NoText)
    /\ target_datetime = Datetime(FALSE, 0, 0, 0)
    /\ candidate = Festival(<<>>, <<>>, NoDate("missing"), NoDate("missing"))
    /\ at_time = "pending"
    /\ matching = <<>>
    /\ selection = <<>>
    /\ web = <<>>
    /\ tasks = <<>>
    /\ dependencies_valid = "pending"

\* one turn of the loop of main() in which the user completes a guided search
GuidedSearch ==
    /\ step = "menu"
    /\ step' = "answered"
    /\ \E c \in 1..Len(FestivalUI.categories), d \in 1..Len(FestivalUI.days),
          t \in 1..Len(FestivalUI.times) :
          /\ selection' = <<FestivalUI.categories[c], FestivalUI.days[d], FestivalUI.times[t]>>
          /\ user_input' = search_input(FestivalUI.categories[c], FestivalUI.days[d],
                                        FestivalUI.times[t])
    /\ LET done == process_user_input(user_input', now, facade, generator, memory) IN
       /\ criteria' = done.criteria
       /\ matching' = done.matching
       /\ memory' = done.memory
       /\ reply' = done.reply
    /\ UNCHANGED <<event_name, category, target_datetime, candidate, at_time, facade,
                   generator, web, tasks, dependencies_valid>>
    /\ UNCHANGED pipeVars
    /\ UNCHANGED validVars

SpecGuided == InitGuided /\ [][GuidedSearch]_vars

\* C29 as stated: the request built from a guided choice is parsed back to the
\* category, the day and the time that were chosen, at every current hour
C29_GuidedRoundTrip ==
    Answered =>
        criteria = Criteria(Text(selection[1]), Text(selection[2]), Text(selection[3]))

----------------------------------------------------------------------------
(* planner.py: TaskPlanner *)

\* a task dict, by the keys the planner reads back
Task(id, priority, dependencies) ==
    [id |-> id, priority |-> priority, dependencies |-> dependencies]

\* the ifs of _create_structured_tasks, in order, then the general task
_create_structured_tasks(input) ==
    LET input_lower == lower(input)
        found ==
            (IF Contains(<<"s", "e", "a", "r", "c", "h">>, input_lower) \/ Contains(<<"f", "i", "n", "d">>, input_lower)
             THEN <<Task("search_task", 1, <<>>)>> ELSE <<>>)
            \o (IF Contains(<<"a", "n", "a", "l", "y", "z", "e">>, input_lower)
                THEN <<Task("analysis_task", 2, <<"search_task">>)>> ELSE <<>>)
            \o (IF Contains(<<"r", "e", "c", "o", "m", "m", "e", "n", "d">>, input_lower) \/ Contains(<<"s", "u", "g", "g", "e", "s", "t">>, input_lower)
                THEN <<Task("recommendation_task", 3, <<"search_task", "analysis_task">>)>>
                ELSE <<>>)
    IN  IF found = <<>> THEN <<Task("general_task", 1, <<>>)>> ELSE found

_create_fallback_tasks == <<Task("fallback_task", 1, <<>>)>>

\* outcome: what the text generator does when the planning prompt is executed
plan_tasks(input, outcome) ==
    IF execute_task(outcome).status = "success" THEN _create_structured_tasks(input)
    ELSE _create_fallback_tasks

validate_task_dependencies(task_list) ==
    LET task_ids == {task_list[i].id : i \in 1..Len(task_list)} IN
    \A i \in 1..Len(task_list) :
        \A k \in 1..Len(task_list[i].dependencies) :
            task_list[i].dependencies[k] \in task_ids

InitPlanner ==
    LET RequestWords ==
            { <<"s", "e", "a", "r", "c", "h">>,
              <<"f", "i", "n", "d">>,
              <<"A", "n", "a", "l", "y", "z", "e">>,
              <<"r", "e", "c", "o", "m", "m", "e", "n", "d">>,
              <<"s", "u", "g", "g", "e", "s", "t">>,
              <<"j", "a", "z", "z">> }
    IN
    /\ now = T0
    /\ PipelineIdle
    /\ step = "request"
    /\ user_input \in Phrases(RequestWords)
    /\ generator \in { <<"answers">>, <<"raises">> }
    /\ tasks = <<>>
    /\ dependencies_valid = "pending"
    /\ event_name = <<>>
    /\ category = "pending"
    /\ criteria = Criteria(NoText, NoText, NoText)
    /\ target_datetime = Datetime(FALSE, 0, 0, 0)
    /\ candidate = Festival(<<>>, <<>>, NoDate("missing"), NoDate("missing"))
    /\ at_time = "pending"
    /\ facade = <<>>
    /\ matching = <<>>
    /\ selection = <<>>
    /\ memory = <<>>
    /\ reply = "pending"
    /\ web = <<>>

\* tasks = plan(user_input)
PlanTasks ==
    /\ step = "request"
    /\ step' = "planned"
    /\ tasks' = plan_tasks(user_input, generator[1])
    /\ UNCHANGED <<event_name, category, user_input, criteria, target_datetime, candidate,
                   at_time, facade, matching, selection, generator, memory, reply, web,
                   dependencies_valid>>
    /\ UNCHANGED pipeVars
    /\ UNCHANGED validVars

\* validate_task_dependencies(tasks)
ValidateTaskDependencies ==
    /\ step = "planned"
    /\ step' = "validated"
    /\ dependencies_valid' = IF validate_task_dependencies(tasks) THEN "True" ELSE "False"
    /\ UNCHANGED <<event_name, category, user_input, criteria, target_datetime, candidate,
                   at_time, facade, matching, selection, generator, memory, reply, web,
                   tasks>>
    /\ UNCHANGED pipeVars
    /\ UNCHANGED validVars

SpecPlanner == InitPlanner /\ [][PlanTasks \/ ValidateTaskDependencies]_vars

\* C30 as stated: the task list planned for any request passes
\* validate_task_dependencies, every dependency id being the id of a task of
\* the same list
C30_DependenciesResolve ==
    step = "validated" => dependencies_valid = "True"

----------------------------------------------------------------------------
(* live_festival_scraper.py: LiveFestivalScraper *)

\* the known festivals of _scrape_specific_festivals, as they are written
known_festivals ==
    <<
       Event(Str(<<"M", "o", "n", "t", "r", "e", "a", "l", " ", "J", "a", "z", "z", " ", "F", "e", "s", "t", "i", "v", "a", "l">>),
             Str("Quartier des Spectacles"), Naive(Date2024(6, 27, 18)), "Official Festival Site"),
       Event(Str(<<"O", "s", "h", "e", "a", "g", "a", " ", "M", "u", "s", "i", "c", " ", "F", "e", "s", "t", "i", "v", "a", "l">>),
             Str("Parc Jean-Drapeau"), Naive(Date2024(8, 2, 12)), "Official Festival Site"),
       Event(Str(<<"J", "u", "s", "t", " ", "f", "o", "r", " ", "L", "a", "u", "g", "h", "s", " ", "C", "o", "m", "e", "d", "y", " ", "F", "e", "s", "t", "i", "v", "a", "l">>),
             Str("Quartier Latin"), Naive(Date2024(7, 10, 19)), "Official Festival Site"),
       Event(Str(<<"M", "o", "n", "t", "r", "e", "a", "l", " ", "I", "n", "t", "e", "r", "n", "a", "t", "i", "o", "n", "a", "l", " ", "F", "i", "l", "m", " ", "F", "e", "s", "t", "i", "v", "a", "l">>),
             Str("Various Cinemas"), Naive(Date2024(8, 22, 10)), "Official Festival Site"),
       Event(Str(<<"M", "o", "n", "t", "r", "e", "a", "l", " ", "F", "o", "o", "d", " ", "F", "e", "s", "t", "i", "v", "a", "l">>),
             Str("Old Port of Montreal"), Naive(Date2024(7, 15, 11)), "Official Festival Site"),
       Event(Str(<<"M", "o", "n", "t", "r", "e", "a", "l", " ", "A", "r", "t", " ", "F", "e", "s", "t", "i", "v", "a", "l">>),
             Str("Place des Arts"), Naive(Date2024(9, 10, 10)), "Official Festival Site"),
       Event(Str(<<"M", "o", "n", "t", "r", "e", "a", "l", " ", "B", "e", "e", "r", " ", "F", "e", "s", "t", "i", "v", "a", "l">>),
             Str("Palais des Congres"), Naive(Date2024(8, 8, 12)), "Official Festival Site"),
       Event(Str(<<"M", "o", "n", "t", "r", "e", "a", "l", " ", "E", "l", "e", "c", "t", "r", "o", "n", "i", "c", " ", "M", "u", "s", "i", "c", " ", "F", "e", "s", "t", "i", "v", "a", "l">>),
             Str("Parc Jean-Drapeau"), Naive(Date2024(7, 20, 14)), "Official Festival Site"),
       Event(Str(<<"M", "o", "n", "t", "r", "e", "a", "l", " ", "S", "t", "r", "e", "e", "t", " ", "A", "r", "t", " ", "F", "e", "s", "t", "i", "v", "a", "l">>),
             Str("Various Locations"), Naive(Date2024(7, 25, 10)), "Official Festival Site"),
       Event(Str(<<"M", "o", "n", "t", "r", "e", "a", "l", " ", "W", "i", "n", "e", " ", "F", "e", "s", "t", "i", "v", "a", "l">>),
             Str("Old Port of Montreal"), Naive(Date2024(8, 30, 11)), "Official Festival Site"),
       Event(Str(<<"M", "o", "n", "t", "r", "e", "a", "l", " ", "S", "u", "m", "m", "e", "r", " ", "F", "e", "s", "t", "i", "v", "a", "l">>),
             Str("Quartier des Spectacles"), Naive(Date2024(7, 1, 18)), "Official Festival Site"),
       Event(Str(<<"M", "o", "n", "t", "r", "e", "a", "l", " ", "C", "u", "l", "t", "u", "r", "a", "l", " ", "F", "e", "s", "t", "i", "v", "a", "l">>),
             Str("Various Venues"), Naive(Date2024(7, 5, 10)), "Official Festival Site")
    >>

\* dt.year, for the years the clock and the known festivals are in
YearOf(t) ==
    CHOOSE y \in 2023..2027 : DayNumber(y, 1, 1) <= DateOf(t) /\ DateOf(t) < DayNumber(y + 1, 1, 1)

\* dt.month and dt.day
MonthOf(t) ==
    CHOOSE k \in 1..12 :
        /\ DayNumber(YearOf(t), k, 1) <= DateOf(t)
        /\ DateOf(t) < DayNumber(YearOf(t), k, 1) + DaysInMonth(YearOf(t), k)

DayOfMonth(t) == DateOf(t) - DayNumber(YearOf(t), MonthOf(t), 1) + 1

\* dt.replace(year=year); no known festival is on a 29th of February
replace_year(t, year) == Days(DayNumber(year, MonthOf(t), DayOfMonth(t))) + HourOf(t)

\* the start moved to the current year, and to the next one if that is past
ShiftedStart(start, cur) ==
    LET this_year == replace_year(start, YearOf(cur)) IN
    IF this_year < cur THEN replace_year(this_year, YearOf(cur) + 1) ELSE this_year

_scrape_specific_festivals(cur) ==
    [i \in 1..Len(known_festivals) |->
        [known_festivals[i] EXCEPT
            !.start_date = isoformat(ShiftedStart(fromisoformat(@).t, cur))]]

\* has_cultural and not has_business
_is_cultural_event(name) ==
    LET event_lower == lower(name)
        cultural_keywords ==
            <<
              <<"f", "e", "s", "t", "i", "v", "a", "l">>,
              <<"c", "o", "n", "c", "e", "r", "t">>, <<"m", "u", "s", "i", "c">>,
              <<"j", "a", "z", "z">>, <<"r", "o", "c", "k">>, <<"p", "o", "p">>,
              <<"c", "l", "a", "s", "s", "i", "c", "a", "l">>, <<"a", "r", "t">>,
              <<"e", "x", "h", "i", "b", "i", "t", "i", "o", "n">>,
              <<"g", "a", "l", "l", "e", "r", "y">>, <<"m", "u", "s", "e", "u", "m">>,
              <<"t", "h", "e", "a", "t", "r", "e">>, <<"t", "h", "e", "a", "t", "e", "r">>,
              <<"d", "a", "n", "c", "e">>, <<"b", "a", "l", "l", "e", "t">>,
              <<"c", "o", "m", "e", "d", "y">>, <<"f", "i", "l", "m">>,
              <<"m", "o", "v", "i", "e">>, <<"c", "i", "n", "e", "m", "a">>,
              <<"f", "o", "o", "d">>, <<"c", "u", "l", "i", "n", "a", "r", "y">>,
              <<"w", "i", "n", "e">>, <<"b", "e", "e", "r">>, <<"t", "a", "s", "t", "e">>,
              <<"c", "u", "l", "t", "u", "r", "e">>,
              <<"p", "e", "r", "f", "o", "r", "m", "a", "n", "c", "e">>,
              <<"s", "h", "o", "w">>,
              <<"e", "n", "t", "e", "r", "t", "a", "i", "n", "m", "e", "n", "t">>,
              <<"c", "e", "l", "e", "b", "r", "a", "t", "i", "o", "n">>
            >>
        business_keywords ==
            <<
              <<"c", "o", "n", "f", "e", "r", "e", "n", "c", "e">>,
              <<"s", "u", "m", "m", "i", "t">>, <<"e", "x", "p", "o">>,
              <<"t", "r", "a", "d", "e">>, <<"b", "u", "s", "i", "n", "e", "s", "s">>,
              <<"t", "e", "c", "h", "n", "o", "l", "o", "g", "y">>,
              <<"c", "y", "b", "e", "r">>, <<"s", "e", "c", "u", "r", "i", "t", "y">>,
              <<"a", "i">>,
              <<"a", "r", "t", "i", "f", "i", "c", "i", "a", "l", " ", "i", "n", "t", "e", "l", "l", "i", "g", "e", "n", "c", "e">>,
              <<"s", "t", "a", "r", "t", "u", "p">>,
              <<"n", "e", "t", "w", "o", "r", "k", "i", "n", "g">>,
              <<"w", "o", "r", "k", "s", "h", "o", "p">>,
              <<"s", "e", "m", "i", "n", "a", "r">>, <<"m", "e", "e", "t", "i", "n", "g">>,
              <<"f", "o", "r", "u", "m">>
            >>
    IN  AnyIn(cultural_keywords, event_lower) /\ ~ AnyIn(business_keywords, event_lower)

\* s.strip()
strip(s) ==
    LET inked == {i \in 1..Len(s) : s[i] \notin {" ", "\t", "\n"}} IN
    IF inked = {} THEN <<>>
    ELSE SubSeq(s, First(inked), CHOOSE i \in inked : \A j \in inked : j <= i)

\* %B: the number of the month whose full name the word is, 0 if none
MonthNumber(word) ==
    LET month_names ==
            <<
              <<"j", "a", "n", "u", "a", "r", "y">>,
              <<"f", "e", "b", "r", "u", "a", "r", "y">>, <<"m", "a", "r", "c", "h">>,
              <<"a", "p", "r", "i", "l">>, <<"m", "a", "y">>, <<"j", "u", "n", "e">>,
              <<"j", "u", "l", "y">>, <<"a", "u", "g", "u", "s", "t">>,
              <<"s", "e", "p", "t", "e", "m", "b", "e", "r">>,
              <<"o", "c", "t", "o", "b", "e", "r">>,
              <<"n", "o", "v", "e", "m", "b", "e", "r">>,
              <<"d", "e", "c", "e", "m", "b", "e", "r">>
            >>
        hits == {i \in 1..12 : month_names[i] = lower(word)}
    IN  IF hits = {} THEN 0 ELSE First(hits)

\* a reading of the text under one format: whether strptime returns, and the date
Reading(shaped, year, month, day) ==
    LET ok == /\ shaped
              /\ Len(year) = 4 /\ \A i \in 1..Len(year) : DigitValue(year[i]) >= 0
              /\ Number(year) >= 1
              /\ month \in 1..12
              /\ ShortNumber(day) /\ Number(day) \in 1..DaysInMonth(Number(year), month)
    IN  [ok |-> ok, date |-> IF ok THEN DayNumber(Number(year), month, Number(day)) ELSE 0]

\* %m
MonthField(f) == IF ShortNumber(f) THEN Number(f) ELSE 0

\* the readings under date_formats, in the order they are tried
Readings(date_string) ==
    LET s == strip(date_string)
        dash == Fields(s, "-")
        slash == Fields(s, "/")
        words == split(s)
        none == <<>>
        At(f, i) == IF i <= Len(f) THEN f[i] ELSE none
        \* "25," of '%B %d, %Y'
        day_comma == IF At(words, 2) # none /\ At(words, 2)[Len(At(words, 2))] = ","
                     THEN SubSeq(At(words, 2), 1, Len(At(words, 2)) - 1) ELSE none
    IN  << Reading(Len(dash) = 3, At(dash, 1), MonthField(At(dash, 2)), At(dash, 3)),
           Reading(Len(words) = 3, At(words, 3), MonthNumber(At(words, 1)), day_comma),
           Reading(Len(words) = 3, At(words, 3), MonthNumber(At(words, 2)), At(words, 1)),
           Reading(Len(slash) = 3, At(slash, 1), MonthField(At(slash, 2)), At(slash, 3)),
           Reading(Len(slash) = 3, At(slash, 3), MonthField(At(slash, 1)), At(slash, 2)),
           Reading(Len(slash) = 3, At(slash, 3), MonthField(At(slash, 2)), At(slash, 1)) >>

\* one of date_formats parses the text
DateTextMatches(date_string) ==
    \E i \in 1..Len(Readings(date_string)) : Readings(date_string)[i].ok

\* faulty variant: a text that no format parses is returned as it is
_parse_date_keeps_text(date_string, cur) ==
    LET read == Readings(date_string)
        hits == {i \in 1..Len(read) : read[i].ok}
    IN  IF hits = {} THEN Garbage ELSE isoformat(Days(read[First(hits)].date))

\* cur: what datetime.now() returns when no format matches
_parse_date(date_string, cur) ==
    LET read == Readings(date_string)
        hits == {i \in 1..Len(read) : read[i].ok}
    IN  IF hits = {} THEN isoformat(cur) ELSE isoformat(Days(read[First(hits)].date))


\* the decimal digits of n, padded with zeros to the width
RECURSIVE Padded(_, _)
Padded(n, width) ==
    IF width = 0 THEN <<>>
    ELSE Padded(n \div 10, width - 1)
         \o << <<"0", "1", "2", "3", "4", "5", "6", "7", "8", "9">>[(n % 10) + 1] >>

\* datetime.now().strftime("%Y-%m-%d")
strftime_date(cur) ==
    Padded(YearOf(cur), 4) \o <<"-">> \o Padded(MonthOf(cur), 2) \o <<"-">>
    \o Padded(DayOfMonth(cur), 2)

\* the websites in the order they are fetched, with the source each one's
\* events carry and the number of elements read from a page
sites ==
    << [source |-> "MTL.org", elements |-> 15],
       [source |-> "Quebec Tourism", elements |-> 15],
       [source |-> "Montreal Gazette", elements |-> 15],
       [source |-> "Montreal.com", elements |-> 15],
       [source |-> "Local Site", elements |-> 10],
       [source |-> "Local Site", elements |-> 10],
       [source |-> "Local Site", elements |-> 10] >>

\* an element of a page: the text of its title and of its date, None for an
\* element that has none
Element(title, date) == [title |-> title, date |-> date]

\* event_name and event_date of an element
TitleOf(e) == IF e.title.ty = "str" THEN strip(e.title.cs) ELSE <<"U", "n", "k", "n", "o", "w", "n", " ", "E", "v", "e", "n", "t">>
DateTextOf(e, cur) == IF e.date.ty = "str" THEN strip(e.date.cs) ELSE strftime_date(cur)

\* one _scrape_* method on one website: [] unless the fetch returns with
\* status 200; then one event per cultural element among the first ones
ScrapeSite(i, response, cur) ==
    IF response.kind # "ok" THEN <<>>
    ELSE LET kept == SelectSeq(Take(response.elements, sites[i].elements),
                               LAMBDA e : _is_cultural_event(TitleOf(e)))
         IN  [k \in 1..Len(kept) |->
                 Event(Str(TitleOf(kept[k])), Str("Montreal"),
                       _parse_date(DateTextOf(kept[k], cur), cur), sites[i].source)]

RECURSIVE ScrapeFrom(_, _, _)
ScrapeFrom(i, responses, cur) ==
    IF i > Len(sites) THEN <<>>
    ELSE ScrapeSite(i, responses[i], cur) \o ScrapeFrom(i + 1, responses, cur)

\* valid_festivals[:30]
MaxLive == 30

\* LiveFestivalScraper.get_live_festivals; responses: what each website answers
scrape_live_festivals(responses, cur) ==
    Take(FilterValid(ScrapeFrom(1, responses, cur) \o _scrape_specific_festivals(cur), cur),
         MaxLive)

\* SpecScraper draws a clock value and what the websites answer
InitScraper ==
    LET Down == [kind |-> "raises", elements |-> <<>>]
        Refused == [kind |-> "non200", elements |-> <<>>]
        Page(elements) == [kind |-> "ok", elements |-> elements]
        JazzNight == Element(Text(<<"J", "a", "z", "z", " ", "N", "i", "g", "h", "t">>), Text(<<"n", "e", "x", "t", " ", "w", "e", "e", "k">>))
        FilmGala == Element(Text(<<"F", "i", "l", "m", " ", "G", "a", "l", "a">>), Text(<<" ", "A", "u", "g", "u", "s", "t", " ", "1", ",", " ", "2", "0", "2", "4", " ">>))
        ArtWalk == Element(Text(<<"A", "r", "t", " ", "W", "a", "l", "k">>), Text(<<"T", "B", "A">>))
        TechSummit == Element(Text(<<"T", "e", "c", "h", " ", "S", "u", "m", "m", "i", "t">>), Text(<<"2", "0", "2", "4", "-", "0", "8", "-", "0", "1">>))
        Untitled == Element(NoText, Text(<<"2", "0", "2", "4", "-", "0", "8", "-", "0", "1">>))
        Undated == Element(Text(<<"W", "i", "n", "e", " ", "T", "a", "s", "t", "i", "n", "g">>), NoText)
        Answers ==
            { [i \in 1..Len(sites) |-> Down],
              [i \in 1..Len(sites) |-> Refused],
              [i \in 1..Len(sites) |->
                  IF i = 1 THEN Page(<<TechSummit, JazzNight, FilmGala>>) ELSE Down],
              [i \in 1..Len(sites) |->
                  IF i = 6 THEN Page(<<Untitled, ArtWalk, Undated>>) ELSE Refused] }
    IN
    /\ now \in {Date2024(1, 1, h) + Days(k) : h \in {10, 18}, k \in 0..730}
    /\ PipelineIdle
    /\ step = "scrape"
    /\ web \in Answers
    /\ event_name = <<>>
    /\ category = "pending"
    /\ user_input = <<>>
    /\ criteria = Criteria(NoText, NoText, NoText)
    /\ target_datetime = Datetime(FALSE, 0, 0, 0)
    /\ candidate = Festival(<<>>, <<>>, NoDate("missing"), NoDate("missing"))
    /\ at_time = "pending"
    /\ facade = <<>>
    /\ matching = <<>>
    /\ selection = <<>>
    /\ generator = <<>>
    /\ memory = <<>>
    /\ reply = "pending"
    /\ tasks = <<>>
    /\ dependencies_valid = "pending"

\* festivals = get_live_festivals()
GetLiveFestivals ==
    /\ step = "scrape"
    /\ step' = "scraped"
    /\ result' = scrape_live_festivals(web, now)
    /\ UNCHANGED <<now, source, pc, apiRaised, live, batch>>
    /\ UNCHANGED <<event_name, category, user_input, criteria, target_datetime, candidate,
                   at_time, facade, matching>>
    /\ UNCHANGED <<selection, generator, memory, reply, web, tasks, dependencies_valid>>
    /\ UNCHANGED validVars

SpecScraper == InitScraper /\ [][GetLiveFestivals]_vars


\* C25 as stated: get_live_festivals returns a non-empty list at every current
\* date, whatever the websites answer, thanks to the known festivals
C25_KnownFestivalsAlwaysListed ==
    step = "scraped" => result # <<>>

\* the elements of the pages that were read whose date text no format parses
UnmatchedElements ==
    {e \in UNION {{[site |-> i, element |-> web[i].elements[k]] :
                      k \in 1..Len(Take(web[i].elements, sites[i].elements))} :
                  i \in {j \in 1..Len(sites) : web[j].kind = "ok"}} :
        e.element.date.ty = "str" /\ ~ DateTextMatches(e.element.date.cs)}

\* the event a page element gives, with the start it is listed under
Scraped(e, start) ==
    Event(Str(TitleOf(e.element)), Str("Montreal"), start, sites[e.site].source)

Listed(event) == \E j \in 1..Len(result) : result[j] = event

====
